---------------------------- MODULE Spec2Model ----------------------------
(***************************************************************************)
(* Layer-composition analysis and grouping engine of bubbletea-v2:        *)
(* class composition (getBubbleData), dominance (dominatingLayers), the   *)
(* composition comparator, package aggregation (getBubbleTeaData) and     *)
(* layer bucketing (categorizeBubbleTeaData / drawServingTable).          *)
(*                                                                         *)
(* JavaScript numbers are IEEE-754 doubles.  A finite number is modelled  *)
(* exactly as a sign and a magnitude that counts units of 2^-FracBits,    *)
(* held in four limbs of LimbBits bits (most significant first).  Every   *)
(* arithmetic result is rounded to MantBits significant bits, ties to     *)
(* even, as the hardware does.                                            *)
(***************************************************************************)
EXTENDS Integers, Sequences, FiniteSets, TLC

(***************************************************************************)
(* Number representation                                                   *)
(***************************************************************************)
MantBits == 53
LimbBits == 18
LimbBase == 2^LimbBits
\* a magnitude V stands for the value V * 2^-FracBits; FracBits = 3*LimbBits + IntShift
IntShift == 8
FracBits == 3 * LimbBits + IntShift

BigZero == <<0, 0, 0, 0>>

\* -1, 0, 1 as a < b, a = b, a > b (lexicographic on the limbs)
BigCmp(a, b) ==
    IF a[1] # b[1] THEN (IF a[1] < b[1] THEN -1 ELSE 1)
    ELSE IF a[2] # b[2] THEN (IF a[2] < b[2] THEN -1 ELSE 1)
    ELSE IF a[3] # b[3] THEN (IF a[3] < b[3] THEN -1 ELSE 1)
    ELSE IF a[4] # b[4] THEN (IF a[4] < b[4] THEN -1 ELSE 1)
    ELSE 0

\* carry chains, least significant limb first
Carry4(s1, s2, s3, s4) == <<s1, s2 % LimbBase, s3 % LimbBase, s4 % LimbBase>>
Carry3(x1, s2, s3, s4) == Carry4(x1 + (s2 \div LimbBase), s2, s3, s4)
Carry2(x1, x2, s3, s4) == Carry3(x1, x2 + (s3 \div LimbBase), s3, s4)
Carry1(x1, x2, x3, s4) == Carry2(x1, x2, x3 + (s4 \div LimbBase), s4)

BigAdd(a, b) == Carry1(a[1] + b[1], a[2] + b[2], a[3] + b[3], a[4] + b[4])

\* a - b for a >= b; a negative limb borrows from the next (\div rounds down)
BigSub(a, b) == Carry1(a[1] - b[1], a[2] - b[2], a[3] - b[3], a[4] - b[4])

\* a * k for a small positive integer k
BigMulSmall(a, k) == Carry1(a[1] * k, a[2] * k, a[3] * k, a[4] * k)

\* quotient and remainder of a by a small positive integer d, most
\* significant limb first
Div4(d, q1, q2, q3, c4) == [q |-> <<q1, q2, q3, c4 \div d>>, r |-> c4 % d]
Div3(a, d, q1, q2, c3)  == Div4(d, q1, q2, c3 \div d, (c3 % d) * LimbBase + a[4])
Div2(a, d, q1, c2)      == Div3(a, d, q1, c2 \div d, (c2 % d) * LimbBase + a[3])

BigDivSmall(a, d) == Div2(a, d, a[1] \div d, (a[1] % d) * LimbBase + a[2])

\* number of bits of n, 0 <= n < 2^30
IntBitLen(n) == IF n = 0 THEN 0 ELSE CHOOSE b \in 1..30 : 2^(b - 1) <= n /\ n < 2^b

BigBitLen(a) ==
    IF a[1] # 0 THEN 3 * LimbBits + IntBitLen(a[1])
    ELSE IF a[2] # 0 THEN 2 * LimbBits + IntBitLen(a[2])
    ELSE IF a[3] # 0 THEN LimbBits + IntBitLen(a[3])
    ELSE IntBitLen(a[4])

\* the low k bits of a, 1 <= k <= LimbBits + 12
BigLow(a, k) ==
    IF k <= LimbBits THEN a[4] % (2^k)
    ELSE (a[3] % (2^(k - LimbBits))) * LimbBase + a[4]

\* bit k (bit 0 is the least significant) of a
BigBit(a, k) == (a[4 - (k \div LimbBits)] \div (2^(k % LimbBits))) % 2

SmallToBig(x) == <<0, 0, x \div LimbBase, x % LimbBase>>

\* round a magnitude to MantBits significant bits, ties to even; sticky says
\* that the exact value lies strictly above a
RoundAt(a, sticky, k, low) ==
    IF \/ low > 2^(k - 1)
       \/ low = 2^(k - 1) /\ (sticky \/ BigBit(a, k) = 1)
        THEN BigAdd(BigSub(a, SmallToBig(low)), SmallToBig(2^k))
        ELSE BigSub(a, SmallToBig(low))

RoundLen(a, sticky, n) ==
    IF n <= MantBits THEN a ELSE RoundAt(a, sticky, n - MantBits, BigLow(a, n - MantBits))

Round53(a, sticky) == RoundLen(a, sticky, BigBitLen(a))

(***************************************************************************)
(* JavaScript numbers                                                      *)
(***************************************************************************)
NegInfinity == [k |-> "ninf"]
NaN         == [k |-> "nan"]
Fin(neg, v) == [k |-> "fin", neg |-> neg /\ v # BigZero, v |-> v]

FromInt(n) ==
    IF n >= 0 THEN Fin(FALSE, <<n * 2^IntShift, 0, 0, 0>>)
    ELSE Fin(TRUE, <<(-n) * 2^IntShift, 0, 0, 0>>)

Zero == FromInt(0)

ToInt(x) == IF x.neg THEN -(x.v[1] \div 2^IntShift) ELSE x.v[1] \div 2^IntShift

\* x < y
NumLt(x, y) ==
    IF x.k = "nan" \/ y.k = "nan" THEN FALSE
    ELSE IF y.k = "ninf" THEN FALSE
    ELSE IF x.k = "ninf" THEN TRUE
    ELSE IF x.neg # y.neg THEN x.neg
    ELSE IF x.neg THEN BigCmp(x.v, y.v) = 1
    ELSE BigCmp(x.v, y.v) = -1

NumGt(x, y) == NumLt(y, x)

\* x + y on finite numbers
NumAdd(x, y) ==
    IF x.neg = y.neg THEN Fin(x.neg, Round53(BigAdd(x.v, y.v), FALSE))
    ELSE IF BigCmp(x.v, y.v) >= 0 THEN Fin(x.neg, Round53(BigSub(x.v, y.v), FALSE))
    ELSE Fin(y.neg, Round53(BigSub(y.v, x.v), FALSE))

NumNeg(x) == Fin(~x.neg, x.v)

NumSub(x, y) == NumAdd(x, NumNeg(y))

\* x / y where y is integer valued (every divisor of the program is a count,
\* a total of counts, a number of classes or the literal 2); 0/0 is NaN
DivRounded(neg, qr) == Fin(neg, Round53(qr.q, qr.r # 0))

NumDiv(x, y) ==
    IF ToInt(y) = 0 THEN NaN
    ELSE DivRounded(x.neg # y.neg, BigDivSmall(x.v, IF y.neg THEN -ToInt(y) ELSE ToInt(y)))

\* 1.5 * x: the exact product is 3x/2
Times1_5(x) == Fin(x.neg, BigDivSmall(Round53(BigMulSmall(x.v, 3), FALSE), 2).q)

Sign(x) == IF x.v = BigZero THEN 0 ELSE IF x.neg THEN -1 ELSE 1


(***************************************************************************)
(* Layer names and the LayerTable (context.layers)                         *)
(***************************************************************************)
null      == "<null>"
undefined == "<undefined>"

Presentation == "Presentation Layer"
Service      == "Service Layer"
Domain       == "Domain Layer"
DataSource   == "Data Source Layer"
Undefined    == "Undefined"
\* a layer value that a classifier may assign and no LayerTable holds
Utility      == "Utility Layer"

\* context.layers with the sentinel at index 0
SentinelLayers == <<null, Presentation, Service, Domain, DataSource>>
\* context.layers as buildContext sets it when the graph has no allowedDependency edge
DefaultLayers == <<Presentation, Service, Domain, DataSource>>

LayerTables == {SentinelLayers, DefaultLayers}

\* utils.js hueMap, as the module is loaded
hueMap == (Presentation :> 0) @@ (Service :> 50) @@ (Domain :> 120) @@ (DataSource :> 240)

VARIABLES
    pc,                  \* position in the run
    layers,              \* context.layers
    bubbleData,          \* SpecDom: the composition vector handed to dominatingLayers
    dominant,            \* SpecDom: what dominatingLayers returned
    data,                \* SpecOrder: the bubbleData array that drawBubbleTea sorts
    cmp,                 \* SpecOrder: compare(data[i])(data[j]) for every i, j
    sorted,              \* SpecOrder: the array after the first sort
    graph,               \* pipeline: packages, their classes, the layer property of their methods
    bubbleTeaDataArray,  \* pipeline: packages.map(getBubbleTeaData)
    layersMap,           \* pipeline: bucket key -> the aggregates placed there
    drawn,               \* pipeline: how many aggregates drawBubbleTea has drawn
    pass,                \* pipeline: 1 in the first run of renderServingTable on the graph, 2 in the second
    returned,            \* pipeline: the aggregates of this run as getBubbleTeaData returned them
    firstPass,           \* pipeline: the graph and the returned aggregates at the end of the first run
    edgeList,            \* buildContext: graph.edges("allowedDependency")
    root,                \* bfsSort: the root it found
    queue,               \* bfsSort: the queue of the traversal
    visited,             \* bfsSort: the Set visited, in insertion order
    result,              \* bfsSort: the vertices dequeued so far
    thrown,              \* buildContext: the message of the Error thrown, null if none
    hues,                \* utils.js hueMap, the module-level object buildContext writes to
    elementsEdges,       \* graph.js: graph.elements.edges
    metaEdges,           \* graph.js: graph._meta._edges, label -> the edges indexed under it
    metaSources,         \* graph.js: node._meta._sources of every node, label -> cached list
    metaTargets,         \* graph.js: node._meta._targets of every node, label -> cached list
    answer,              \* graph.js: the last call made on the graph and what it returned
    calls                \* graph.js: how many calls have been made on the graph

vars == <<pc, layers, bubbleData, dominant, data, cmp, sorted, graph, bubbleTeaDataArray, layersMap, drawn,
          pass, returned, firstPass, edgeList, root, queue, visited, result, thrown, hues,
          elementsEdges, metaEdges, metaSources, metaTargets, answer, calls>>

domVars   == <<bubbleData, dominant>>
orderVars == <<data, cmp, sorted>>
pipeVars  == <<graph, bubbleTeaDataArray, layersMap, drawn>>
passVars  == <<pass, returned, firstPass>>
ctxVars   == <<edgeList, root, queue, visited, result, thrown, hues>>
graphVars == <<elementsEdges, metaEdges, metaSources, metaTargets, answer, calls>>

\* graph.js: the nodes and the edge labels of the graph, how many edges it is
\* loaded with and how many calls are made on it
GraphNodes     == {"a", "b"}
EdgeLabels     == {"calls", "contains"}
MaxLoadedEdges == 1
MaxCalls       == 4

\* the variables that the steps of one specification leave alone
outsideDom   == <<orderVars, pipeVars, passVars, ctxVars, graphVars>>
outsideOrder == <<domVars, pipeVars, passVars, ctxVars, graphVars>>
outsidePipe  == <<domVars, orderVars, ctxVars, graphVars>>
outsideCtx   == <<domVars, orderVars, pipeVars, passVars, graphVars>>
outsideGraph == <<domVars, orderVars, pipeVars, passVars, ctxVars>>

\* their values in the specifications that do not use them
IdleDom   == bubbleData = <<>> /\ dominant = <<>>
IdleOrder == data = <<>> /\ cmp = <<>> /\ sorted = <<>>
IdlePipe  ==
    /\ graph = <<>> /\ bubbleTeaDataArray = <<>> /\ layersMap = <<>> /\ drawn = 0
    /\ pass = 1 /\ returned = <<>> /\ firstPass = <<>>
IdleCtx   ==
    /\ edgeList = <<>> /\ root = null /\ queue = <<>> /\ visited = <<>> /\ result = <<>>
    /\ thrown = null /\ hues = hueMap
IdleGraph ==
    /\ elementsEdges = <<>> /\ metaEdges = <<>>
    /\ metaSources = [n \in GraphNodes |-> <<>>] /\ metaTargets = [n \in GraphNodes |-> <<>>]
    /\ answer = null /\ calls = 0

(***************************************************************************)
(* Array helpers                                                           *)
(***************************************************************************)
\* Array.prototype.indexOf: 0-based position of the first match, -1 if none
RECURSIVE IndexFrom(_, _, _)
IndexFrom(arr, x, i) ==
    IF i > Len(arr) THEN -1
    ELSE IF arr[i] = x THEN i - 1
    ELSE IndexFrom(arr, x, i + 1)

\* indexOf answering 0, the place of the sentinel, for a value that is absent
indexOfOrZero(arr, x) ==
    IF \E i \in 1..Len(arr) : arr[i] = x
        THEN (CHOOSE i \in 1..Len(arr) : arr[i] = x /\ \A j \in 1..(i - 1) : arr[j] # x) - 1
        ELSE 0

indexOf(arr, x) == IndexFrom(arr, x, 1)

includes(arr, x) == \E i \in 1..Len(arr) : arr[i] = x

Abs(n) == IF n < 0 THEN -n ELSE n

\* utils.js arraysEqual
arraysEqual(a, b) ==
    Len(a) = Len(b) /\ \A i \in 1..Len(a) : a[i] = b[i]

\* utils.js sum: reduce from 0, left to right
RECURSIVE SumFrom(_, _, _)
SumFrom(arr, i, acc) ==
    IF i > Len(arr) THEN acc ELSE SumFrom(arr, i + 1, NumAdd(acc, arr[i]))

sum(arr) == SumFrom(arr, 1, Zero)

Counts(arr) == [i \in 1..Len(arr) |-> arr[i].count]

(***************************************************************************)
(* composition.js dominatingLayersWithContext                              *)
(***************************************************************************)
\* the scan with >= for >: on equal counts the later entry takes the lead
RECURSIVE ScanTopTies(_, _, _)
ScanTopTies(bd, i, st) ==
    IF i > Len(bd) THEN st
    ELSE LET count == bd[i].count
             layer == bd[i].layer
         IN  IF ~NumLt(count, st.max1)
                 THEN ScanTopTies(bd, i + 1, [max1 |-> count, layer1 |-> layer,
                                              max2 |-> st.max1, layer2 |-> st.layer1])
             ELSE IF ~NumLt(count, st.max2)
                 THEN ScanTopTies(bd, i + 1, [st EXCEPT !.max2 = count, !.layer2 = layer])
             ELSE ScanTopTies(bd, i + 1, st)

\* the scan that drops the old leader instead of moving it to second place
RECURSIVE ScanTopNoDemote(_, _, _)
ScanTopNoDemote(bd, i, st) ==
    IF i > Len(bd) THEN st
    ELSE LET count == bd[i].count
             layer == bd[i].layer
         IN  IF NumGt(count, st.max1)
                 THEN ScanTopNoDemote(bd, i + 1, [st EXCEPT !.max1 = count, !.layer1 = layer])
             ELSE IF NumGt(count, st.max2)
                 THEN ScanTopNoDemote(bd, i + 1, [st EXCEPT !.max2 = count, !.layer2 = layer])
             ELSE ScanTopNoDemote(bd, i + 1, st)

\* the scan of lines 72-85: running top two counts and their layers
RECURSIVE ScanTop(_, _, _)
ScanTop(bd, i, st) ==
    IF i > Len(bd) THEN st
    ELSE LET count == bd[i].count
             layer == bd[i].layer
         IN  IF NumGt(count, st.max1)
                 THEN ScanTop(bd, i + 1, [max1 |-> count, layer1 |-> layer,
                                          max2 |-> st.max1, layer2 |-> st.layer1])
             ELSE IF NumGt(count, st.max2)
                 THEN ScanTop(bd, i + 1, [st EXCEPT !.max2 = count, !.layer2 = layer])
             ELSE ScanTop(bd, i + 1, st)

TopTwo(bd) ==
    ScanTop(bd, 1, [max1 |-> NegInfinity, layer1 |-> null,
                    max2 |-> NegInfinity, layer2 |-> null])

\* the decision with the threshold 2 for 1.5
DecideTwice(ls, bd, t) ==
    IF t.max2 = NegInfinity THEN <<t.layer1>>
    ELSE IF NumGt(t.max1, NumAdd(t.max2, t.max2)) THEN <<t.layer1>>
    ELSE IF /\ \/ Len(bd) = 2
               \/ \E i \in 1..Len(bd) : NumLt(Times1_5(bd[i].count), t.max1)
            /\ Abs(indexOf(ls, t.layer1) - indexOf(ls, t.layer2)) < 2
        THEN <<t.layer1, t.layer2>>
    ELSE <<>>

\* the decision without the adjacency test of line 99
DecideUngated(ls, bd, t) ==
    IF t.max2 = NegInfinity THEN <<t.layer1>>
    ELSE IF NumGt(t.max1, Times1_5(t.max2)) THEN <<t.layer1>>
    ELSE IF \/ Len(bd) = 2
            \/ \E i \in 1..Len(bd) : NumLt(Times1_5(bd[i].count), t.max1)
        THEN <<t.layer1, t.layer2>>
    ELSE <<>>

\* the decision with >= for > in the threshold test
DecideAtLeast(ls, bd, t) ==
    IF t.max2 = NegInfinity THEN <<t.layer1>>
    ELSE IF ~NumLt(t.max1, Times1_5(t.max2)) THEN <<t.layer1>>
    ELSE IF /\ \/ Len(bd) = 2
               \/ \E i \in 1..Len(bd) : NumLt(Times1_5(bd[i].count), t.max1)
            /\ Abs(indexOf(ls, t.layer1) - indexOf(ls, t.layer2)) < 2
        THEN <<t.layer1, t.layer2>>
    ELSE <<>>

\* the decision without the test for a small entry of line 98
DecideNoSmall(ls, bd, t) ==
    IF t.max2 = NegInfinity THEN <<t.layer1>>
    ELSE IF NumGt(t.max1, Times1_5(t.max2)) THEN <<t.layer1>>
    ELSE IF Abs(indexOf(ls, t.layer1) - indexOf(ls, t.layer2)) < 2
        THEN <<t.layer1, t.layer2>>
    ELSE <<>>

\* lines 87-103, on the outcome t of the scan
Decide(ls, bd, t) ==
    IF t.max2 = NegInfinity THEN <<t.layer1>>
    ELSE IF NumGt(t.max1, Times1_5(t.max2)) THEN <<t.layer1>>
    ELSE IF /\ \/ Len(bd) = 2
               \/ \E i \in 1..Len(bd) : NumLt(Times1_5(bd[i].count), t.max1)
            /\ Abs(indexOf(ls, t.layer1) - indexOf(ls, t.layer2)) < 2
        THEN <<t.layer1, t.layer2>>
    ELSE <<>>

dominatingLayers(ls, bd) ==
    IF Len(bd) < 1 THEN <<>> ELSE Decide(ls, bd, TopTwo(bd))

(***************************************************************************)
(* SpecDom: dominatingLayers applied to one composition vector             *)
(***************************************************************************)
MaxCount   == 3
MaxEntries == 3

VecLayers == {Presentation, Service, Domain, Undefined, Utility}

VecEntries == {[layer |-> l, count |-> FromInt(c)] : l \in VecLayers, c \in 1..MaxCount}

DistinctLayers(v) == \A i, j \in 1..Len(v) : i # j => v[i].layer # v[j].layer

\* a vector as Object.entries of the layer counts gives it (pairwise distinct
\* layers, integer counts >= 1, any order) with every count divided by the
\* vector's total, the shape in which the aggregator hands the vector of a
\* one-class package on
NormalisedBy(v, total) ==
    [i \in 1..Len(v) |-> [layer |-> v[i].layer, count |-> NumDiv(v[i].count, total)]]

Normalised(v) == NormalisedBy(v, sum(Counts(v)))

InitDom ==
    /\ pc = "call"
    /\ layers \in LayerTables
    /\ \E n \in 0..MaxEntries : \E v \in [1..n -> VecEntries], normalised \in BOOLEAN :
           /\ DistinctLayers(v)
           /\ bubbleData = IF normalised /\ v # <<>> THEN Normalised(v) ELSE v
    /\ dominant = <<>>
    /\ IdleOrder /\ IdlePipe /\ IdleCtx /\ IdleGraph

DominatingLayers ==
    /\ pc = "call"
    /\ dominant' = dominatingLayers(layers, bubbleData)
    /\ pc' = "done"
    /\ UNCHANGED <<layers, bubbleData, outsideDom>>

NextDom == DominatingLayers

SpecDom == InitDom /\ [][NextDom]_vars

\* count > 1.5 * other, as the program evaluates it
Exceeds(count, other) == NumGt(count, Times1_5(other))

\* entry i holds strictly more than 1.5 times the count of every other entry
StrictlyDominates(i) ==
    \A j \in 1..Len(bubbleData) :
        j # i => Exceeds(bubbleData[i].count, bubbleData[j].count)

\* C1: a vector in which one entry's count is strictly greater than 1.5 times
\* every other entry's count yields exactly that entry's layer, wherever the
\* entry stands and whether or not its layer is in the LayerTable.
C1_SingleMax ==
    pc = "done" =>
        \A i \in 1..Len(bubbleData) :
            StrictlyDominates(i) => dominant = <<bubbleData[i].layer>>

C1_Witness ==
    /\ pc = "done"
    /\ Len(bubbleData) = 3
    /\ StrictlyDominates(3)
    /\ indexOf(layers, bubbleData[3].layer) = -1
    /\ indexOf(layers, bubbleData[1].layer) > 0
    /\ dominant = <<bubbleData[3].layer>>

\* neither count of a 2-entry vector exceeds 1.5 times the other
NearEqualPair ==
    /\ Len(bubbleData) = 2
    /\ ~Exceeds(bubbleData[1].count, bubbleData[2].count)
    /\ ~Exceeds(bubbleData[2].count, bubbleData[1].count)

IndexDistance(a, b) == Abs(indexOf(layers, a) - indexOf(layers, b))

\* pair is the two layers of the 2-entry vector, and where both have a
\* position in the LayerTable the one with the lower index comes first
InLayerTableOrder(pair) ==
    /\ Len(pair) = 2
    /\ {pair[1], pair[2]} = {bubbleData[1].layer, bubbleData[2].layer}
    /\ (indexOf(layers, pair[1]) >= 0 /\ indexOf(layers, pair[2]) >= 0)
           => indexOf(layers, pair[1]) <= indexOf(layers, pair[2])

\* C2 as stated: a near-equal 2-entry vector yields [] when the layers are 2
\* or more apart in the LayerTable and otherwise both layers, the one with
\* the lower LayerTable index first.
C2_AdjacencyGate ==
    (pc = "done" /\ NearEqualPair) =>
        IF IndexDistance(bubbleData[1].layer, bubbleData[2].layer) >= 2
            THEN dominant = <<>>
            ELSE InLayerTableOrder(dominant)

\* C2 as amended: a near-equal 2-entry vector yields [] when the layers are 2
\* or more apart in the LayerTable and otherwise both layers, the layer of
\* the larger count first and the earlier entry first on equal counts.
C2_CountOrder ==
    (pc = "done" /\ NearEqualPair) =>
        IF IndexDistance(bubbleData[1].layer, bubbleData[2].layer) >= 2
            THEN dominant = <<>>
            ELSE dominant = IF NumGt(bubbleData[2].count, bubbleData[1].count)
                                THEN <<bubbleData[2].layer, bubbleData[1].layer>>
                                ELSE <<bubbleData[1].layer, bubbleData[2].layer>>

\* a near-equal adjacent pair listed against the LayerTable order, the later
\* layer holding the larger count
C2_Witness ==
    /\ pc = "done"
    /\ NearEqualPair
    /\ bubbleData[1].layer = Presentation /\ bubbleData[2].layer = Service
    /\ NumGt(bubbleData[2].count, bubbleData[1].count)
    /\ dominant = <<Service, Presentation>>

\* C3: the result has 0, 1 or 2 elements, is [] for the empty vector, holds
\* only layers of the input, and a 2-element result is never a pair whose
\* LayerTable indices differ by 2 or more.
C3_ResultShape ==
    pc = "done" =>
        /\ Len(dominant) \in {0, 1, 2}
        /\ (Len(bubbleData) = 0 => dominant = <<>>)
        /\ \A k \in 1..Len(dominant) : \E i \in 1..Len(bubbleData) : bubbleData[i].layer = dominant[k]
        /\ (Len(dominant) = 2 => IndexDistance(dominant[1], dominant[2]) < 2)

C3_Witness ==
    /\ pc = "done"
    /\ Len(bubbleData) = 3
    /\ Len(dominant) = 2
    /\ IndexDistance(dominant[1], dominant[2]) = 1

\* the place of the largest count, the earliest one on equal counts
LargestAt ==
    CHOOSE i \in 1..Len(bubbleData) :
        /\ \A j \in 1..Len(bubbleData) : ~NumGt(bubbleData[j].count, bubbleData[i].count)
        /\ \A j \in 1..(i - 1) : NumLt(bubbleData[j].count, bubbleData[i].count)

\* the place of the largest count among the other entries, the earliest one
\* on equal counts
SecondAfter(largest) ==
    CHOOSE i \in 1..Len(bubbleData) \ {largest} :
        /\ \A j \in 1..Len(bubbleData) \ {largest} :
               ~NumGt(bubbleData[j].count, bubbleData[i].count)
        /\ \A j \in 1..(i - 1) \ {largest} : NumLt(bubbleData[j].count, bubbleData[i].count)

SecondAt == SecondAfter(LargestAt)

\* the largest count is greater than 1.5 times the second-largest
LargestExceeds == Exceeds(bubbleData[LargestAt].count, bubbleData[SecondAt].count)

\* every count of the vector is the integer n it was counted as, and on such
\* counts a > 1.5 * b is 2a > 3b
IntegerCounts == \A i \in 1..Len(bubbleData) : bubbleData[i].count = FromInt(ToInt(bubbleData[i].count))

\* the result is single exactly when max1 > 1.5 * max2, max1 and max2 being
\* the largest and the second-largest count
SingleWhenExceeding(max1, max2) ==
    /\ Len(dominant) = 1 <=> Exceeds(max1, max2)
    /\ IntegerCounts => (Len(dominant) = 1 <=> 2 * ToInt(max1) > 3 * ToInt(max2))

\* C19: for a non-empty vector the result has one element exactly when the
\* vector has one entry or its largest count is strictly greater than 1.5
\* times its second-largest; at exact equality (3 and 2) the result is not
\* single: {Presentation: 3, Service: 2} gives [Presentation, Service].
C19_SingleIff ==
    (pc = "done" /\ Len(bubbleData) >= 1) =>
        /\ Len(bubbleData) = 1 => Len(dominant) = 1
        /\ Len(bubbleData) >= 2 =>
               SingleWhenExceeding(bubbleData[LargestAt].count, bubbleData[SecondAt].count)
        /\ bubbleData = <<[layer |-> Presentation, count |-> FromInt(3)],
                          [layer |-> Service, count |-> FromInt(2)]>>
               => dominant = <<Presentation, Service>>

\* the vector {Presentation: 3, Service: 2}, at the exact ratio 1.5
C19_Witness ==
    /\ pc = "done"
    /\ Len(bubbleData) = 2
    /\ bubbleData[1] = [layer |-> Presentation, count |-> FromInt(3)]
    /\ bubbleData[2].count = FromInt(2)
    /\ ~LargestExceeds
    /\ Len(dominant) = 2

\* some entry's count times 1.5 is less than the largest count
SomeSmall ==
    \E i \in 1..Len(bubbleData) :
        NumLt(Times1_5(bubbleData[i].count), bubbleData[LargestAt].count)

\* when the count of first, the largest, does not exceed 1.5 times the count
\* of second, the second-largest: the pair if some count times 1.5 is less
\* than the largest and the two layers are less than 2 apart, otherwise []
PairWhenNotExceeding(first, second) ==
    ~Exceeds(first.count, second.count) =>
        dominant = IF /\ \E i \in 1..Len(bubbleData) :
                             NumLt(Times1_5(bubbleData[i].count), first.count)
                      /\ IndexDistance(first.layer, second.layer) < 2
                       THEN <<first.layer, second.layer>>
                       ELSE <<>>

\* C20: a vector of at least three entries whose largest count does not
\* exceed 1.5 times its second-largest yields [layer1, layer2] exactly when
\* some entry's count times 1.5 is less than the largest count and the
\* LayerTable indices of layer1 and layer2 differ by less than 2, and
\* otherwise [].
C20_ThreeOrMore ==
    (pc = "done" /\ Len(bubbleData) >= 3) =>
        PairWhenNotExceeding(bubbleData[LargestAt], bubbleData[SecondAt])

\* three entries, the largest at the second place and the second-largest
\* after it, adjacent in the LayerTable, and a small entry
C20_Witness ==
    /\ pc = "done"
    /\ Len(bubbleData) = 3
    /\ ~LargestExceeds
    /\ LargestAt = 2 /\ SecondAt = 3
    /\ SomeSmall
    /\ dominant = <<Service, Presentation>>

\* t has the entry at place first as its leader and the entry at place second
\* as its runner-up
HoldsTopTwo(t, first, second) ==
    /\ t.max1 = first.count /\ t.layer1 = first.layer
    /\ t.max2 = second.count /\ t.layer2 = second.layer

\* the largest count stands at two places or more
LargestTwice ==
    \E i \in 1..Len(bubbleData) :
        i # LargestAt /\ bubbleData[i].count = bubbleData[LargestAt].count

\* C21: the scan ends with max1 and max2 the largest and the second-largest
\* count of the vector as a multiset (max2 = max1 when the largest count
\* stands twice), layer1 the earliest entry holding max1 and layer2 the
\* earliest other entry holding max2; on one entry max2 stays -Infinity.
C21_ScanTopTwo ==
    (pc = "done" /\ Len(bubbleData) >= 1) =>
        /\ Len(bubbleData) = 1 =>
               TopTwo(bubbleData) = [max1 |-> bubbleData[1].count, layer1 |-> bubbleData[1].layer,
                                     max2 |-> NegInfinity, layer2 |-> null]
        /\ Len(bubbleData) >= 2 =>
               /\ HoldsTopTwo(TopTwo(bubbleData), bubbleData[LargestAt], bubbleData[SecondAt])
               /\ LargestTwice => TopTwo(bubbleData).max2 = TopTwo(bubbleData).max1

\* three entries of one count: the first two are installed and the third,
\* equal to both, replaces neither
C21_Witness ==
    /\ pc = "done"
    /\ Len(bubbleData) = 3
    /\ bubbleData[1].count = bubbleData[2].count
    /\ bubbleData[2].count = bubbleData[3].count
    /\ TopTwo(bubbleData).layer1 = bubbleData[1].layer
    /\ TopTwo(bubbleData).layer2 = bubbleData[2].layer
    /\ TopTwo(bubbleData).max2 = bubbleData[3].count

\* C26: with the sentinel-prefixed LayerTable a layer of the table has an
\* index of at least 1 and any other name has index -1, so a 2-element
\* result never pairs a layer of the table with a name outside it.
C26_NoMixedPair ==
    (pc = "done" /\ layers = SentinelLayers) =>
        /\ \A i \in 1..Len(bubbleData) :
               IF includes(layers, bubbleData[i].layer)
                   THEN indexOf(layers, bubbleData[i].layer) >= 1
                   ELSE indexOf(layers, bubbleData[i].layer) = -1
        /\ Len(dominant) = 2 =>
               (includes(layers, dominant[1]) <=> includes(layers, dominant[2]))

\* Presentation Layer and Undefined with near-equal counts, and a third,
\* small entry: no pair
C26_Witness ==
    /\ pc = "done"
    /\ layers = SentinelLayers
    /\ Len(bubbleData) = 3
    /\ bubbleData[1].layer = Presentation /\ bubbleData[2].layer = Undefined
    /\ ~Exceeds(bubbleData[1].count, bubbleData[2].count)
    /\ ~Exceeds(bubbleData[2].count, bubbleData[1].count)
    /\ NumLt(Times1_5(bubbleData[3].count), bubbleData[1].count)
    /\ dominant = <<>>

(***************************************************************************)
(* SpecReorder: dominatingLayers on vectors long enough for a tie among    *)
(* the leaders next to a small entry                                       *)
(***************************************************************************)
MaxTieCount   == 2
MaxTieEntries == 4

TieEntries == {[layer |-> l, count |-> FromInt(c)] : l \in VecLayers, c \in 1..MaxTieCount}

InitReorder ==
    /\ pc = "call"
    /\ layers \in LayerTables
    /\ \E n \in 0..MaxTieEntries : \E v \in [1..n -> TieEntries], normalised \in BOOLEAN :
           /\ DistinctLayers(v)
           /\ bubbleData = IF normalised /\ v # <<>> THEN Normalised(v) ELSE v
    /\ dominant = <<>>
    /\ IdleOrder /\ IdlePipe /\ IdleCtx /\ IdleGraph

SpecReorder == InitReorder /\ [][NextDom]_vars

\* the ways of listing n entries in another order
Orderings(n) == {f \in [1..n -> 1..n] : \A i, j \in 1..n : i # j => f[i] # f[j]}

Reordered(v, f) == [i \in 1..Len(v) |-> v[f[i]]]

LayerSet(d) == {d[k] : k \in 1..Len(d)}

\* C25: in whatever order the entries of the vector are listed,
\* dominatingLayers returns the same set of layers.
C25_OrderIndependent ==
    pc = "done" =>
        \A f \in Orderings(Len(bubbleData)) :
            LayerSet(dominatingLayers(layers, Reordered(bubbleData, f))) = LayerSet(dominant)

(***************************************************************************)
(* composition.js layerCompositionComparatorWithContext                    *)
(***************************************************************************)
\* the score with 0 for 100 as the score of the empty list
calculateDominanceScoreFromZero(ls, dominantLayers) ==
    IF Len(dominantLayers) = 0 THEN FromInt(0)
    ELSE IF Len(dominantLayers) = 1 THEN FromInt(indexOf(ls, dominantLayers[1]))
    ELSE NumDiv(NumAdd(FromInt(indexOf(ls, dominantLayers[1])),
                       FromInt(indexOf(ls, dominantLayers[2]))), FromInt(2))

calculateDominanceScore(ls, dominantLayers) ==
    IF Len(dominantLayers) = 0 THEN FromInt(100)
    ELSE IF Len(dominantLayers) = 1 THEN FromInt(indexOf(ls, dominantLayers[1]))
    ELSE NumDiv(NumAdd(FromInt(indexOf(ls, dominantLayers[1])),
                       FromInt(indexOf(ls, dominantLayers[2]))), FromInt(2))

\* Array.prototype.filter on the entries whose layer is in dominantLayers
RECURSIVE FilterDominant(_, _, _)
FilterDominant(arr, dominantLayers, i) ==
    IF i > Len(arr) THEN <<>>
    ELSE IF includes(dominantLayers, arr[i].layer)
        THEN <<arr[i]>> \o FilterDominant(arr, dominantLayers, i + 1)
    ELSE FilterDominant(arr, dominantLayers, i + 1)

calculateProportion(arr, dominantLayers) ==
    NumDiv(sum(Counts(FilterDominant(arr, dominantLayers, 1))), sum(Counts(arr)))

\* the comparison with ia - ib for ib - ia on equal dominating layers
CompareAscending(ls, aBubbleData, bBubbleData, da, db) ==
    IF arraysEqual(da, db)
        THEN NumSub(calculateProportion(aBubbleData, da),
                    calculateProportion(bBubbleData, db))
        ELSE NumSub(calculateDominanceScore(ls, da), calculateDominanceScore(ls, db))

\* compare(aBubbleData)(bBubbleData)
\* lines 142-152, on the dominating layers da and db of the two vectors
CompareDominant(ls, aBubbleData, bBubbleData, da, db) ==
    IF arraysEqual(da, db)
        THEN NumSub(calculateProportion(bBubbleData, db),
                    calculateProportion(aBubbleData, da))
        ELSE NumSub(calculateDominanceScore(ls, da), calculateDominanceScore(ls, db))

compare(ls, aBubbleData, bBubbleData) ==
    CompareDominant(ls, aBubbleData, bBubbleData,
                    dominatingLayers(ls, aBubbleData), dominatingLayers(ls, bBubbleData))

(***************************************************************************)
(* Array.prototype.sort with the comparator, as drawBubbleTea calls it     *)
(***************************************************************************)
\* the composition vector of class k among the elements of the bubbleData array
VecOf(arr, k) == (CHOOSE x \in {arr[n] : n \in 1..Len(arr)} : x.class = k).bubbleData

\* compare(x.bubbleData)(y.bubbleData) for every two elements x, y of the
\* array, indexed by their classes
CompareTable(ls, arr) ==
    [i \in 1..Len(arr) |-> [j \in 1..Len(arr) |-> compare(ls, VecOf(arr, i), VecOf(arr, j))]]

\* sign of compare(x.bubbleData)(y.bubbleData) on two elements of the
\* bubbleData array, read from the table c of the comparator's values
\* (compare is a pure function of the two vectors; c[i][j] holds its value
\* on the vectors of classes i and j)
Cmp(c, x, y) == Sign(c[x.class][y.class])

\* ECMAScript's "consistent comparator", on the table c
ConsistentSigns(c) ==
    \A i, j, k \in 1..Len(c) :
        /\ Sign(c[i][i]) = 0
        /\ Sign(c[i][j]) = 0 => Sign(c[j][i]) = 0
        /\ (Sign(c[i][j]) = 0 /\ Sign(c[j][k]) = 0) => Sign(c[i][k]) = 0
        /\ (Sign(c[i][j]) < 0 /\ Sign(c[j][k]) < 0) => Sign(c[i][k]) < 0
        /\ (Sign(c[i][j]) > 0 /\ Sign(c[j][k]) > 0) => Sign(c[i][k]) > 0

\* insert x into the sorted array before the first element that is greater
RECURSIVE InsertStable(_, _, _)
InsertStable(c, arr, x) ==
    IF Len(arr) = 0 THEN <<x>>
    ELSE IF Cmp(c, arr[Len(arr)], x) > 0
        THEN Append(InsertStable(c, SubSeq(arr, 1, Len(arr) - 1), x), arr[Len(arr)])
    ELSE Append(arr, x)

RECURSIVE StableSort(_, _)
StableSort(c, arr) ==
    IF Len(arr) <= 1 THEN arr
    ELSE InsertStable(c, StableSort(c, SubSeq(arr, 1, Len(arr) - 1)), arr[Len(arr)])

Reorderings(arr) ==
    {[i \in 1..Len(arr) |-> arr[f[i]]] :
        f \in {g \in [1..Len(arr) -> 1..Len(arr)] : \A i, j \in 1..Len(arr) : i # j => g[i] # g[j]}}

\* the orders in which data.sort(compare) can leave the array: the stable
\* order when the comparator is consistent on the elements, and an
\* implementation-defined permutation when it is not
SortOutcomes(c, arr) ==
    IF ConsistentSigns(c) THEN {StableSort(c, arr)} ELSE Reorderings(arr)

(***************************************************************************)
(* SpecOrder: the comparator and the sort on the bubbles of one package    *)
(***************************************************************************)
MaxOrderCount   == 2
MaxOrderEntries == 2
NumBubbles      == 3

OrderLayers == {Presentation, Undefined, Utility}

OrderEntries == {[layer |-> l, count |-> FromInt(c)] : l \in OrderLayers, c \in 1..MaxOrderCount}

\* class vectors: non-empty, pairwise distinct layers, counts >= 1
OrderVectors ==
    UNION {{v \in [1..n -> OrderEntries] : DistinctLayers(v)} : n \in 1..MaxOrderEntries}

InitOrder ==
    /\ pc = "compare"
    /\ layers = SentinelLayers
    /\ \E vs \in [1..NumBubbles -> OrderVectors] :
           data = [i \in 1..NumBubbles |-> [class |-> i, bubbleData |-> vs[i]]]
    /\ cmp = <<>> /\ sorted = <<>>
    /\ IdleDom /\ IdlePipe /\ IdleCtx /\ IdleGraph

\* compare(a)(b) for every two bubbles of the package
CompareAll ==
    /\ pc = "compare"
    /\ cmp' = CompareTable(layers, data)
    /\ pc' = "sort"
    /\ UNCHANGED <<layers, data, sorted, outsideOrder>>

\* data.sort((a, b) => compare(a.bubbleData)(b.bubbleData)), in place
SortBubbles ==
    /\ pc = "sort"
    /\ data' \in SortOutcomes(cmp, data)
    /\ sorted' = data'
    /\ pc' = "resort"
    /\ UNCHANGED <<layers, cmp, outsideOrder>>

\* the same sort applied to the array it has just sorted
SortAgain ==
    /\ pc = "resort"
    /\ data' \in SortOutcomes(cmp, data)
    /\ pc' = "done"
    /\ UNCHANGED <<layers, cmp, sorted, outsideOrder>>

NextOrder == CompareAll \/ SortBubbles \/ SortAgain

SpecOrder == InitOrder /\ [][NextOrder]_vars

\* C6: the comparator is a total preorder on class vectors: the signs of
\* cmp(a,b) and cmp(b,a) are opposite, cmp(a,b) <= 0 and cmp(b,c) <= 0 give
\* cmp(a,c) <= 0, and cmp(a,b) = 0 and cmp(b,c) = 0 give cmp(a,c) = 0.
C6_TotalPreorder ==
    pc # "compare" =>
        \A i, j, k \in 1..NumBubbles :
            /\ Sign(cmp[i][j]) = -Sign(cmp[j][i])
            /\ (Sign(cmp[i][j]) <= 0 /\ Sign(cmp[j][k]) <= 0) => Sign(cmp[i][k]) <= 0
            /\ (Sign(cmp[i][j]) = 0 /\ Sign(cmp[j][k]) = 0) => Sign(cmp[i][k]) = 0

MaxCmpCount   == 2
MaxCmpEntries == 3

CmpLayers == {Presentation, Service, Undefined}

CmpEntries == {[layer |-> l, count |-> FromInt(c)] : l \in CmpLayers, c \in 1..MaxCmpCount}

\* class vectors: non-empty, pairwise distinct layers, counts >= 1
CmpVectors ==
    UNION {{v \in [1..n -> CmpEntries] : DistinctLayers(v)} : n \in 1..MaxCmpEntries}

\* a number that tells the vectors apart: the comparator is called in both
\* directions on the two vectors, so every two vectors are listed once
RECURSIVE VectorCode(_, _)
VectorCode(v, i) ==
    IF i > Len(v) THEN 0
    ELSE (CASE v[i].layer = Presentation -> 1 [] v[i].layer = Service -> 2 [] OTHER -> 3) * 8
             + ToInt(v[i].count) + 64 * VectorCode(v, i + 1)

InitCompare ==
    /\ pc = "compare"
    /\ layers = SentinelLayers
    /\ \E a, b \in CmpVectors :
           /\ VectorCode(a, 1) <= VectorCode(b, 1)
           /\ data = <<[class |-> 1, bubbleData |-> a], [class |-> 2, bubbleData |-> b]>>
    /\ cmp = <<>> /\ sorted = <<>>
    /\ IdleDom /\ IdlePipe /\ IdleCtx /\ IdleGraph

NextCompare == CompareAll

SpecCompare == InitCompare /\ [][NextCompare]_vars

\* the dominant list of the vector of class i
DominantOf(i) == dominatingLayers(layers, data[i].bubbleData)

\* the counts of v, as the integers they were counted as, summed over the
\* entries from place i on whose layer is in the set S
RECURSIVE CountWithin(_, _, _)
CountWithin(v, S, i) ==
    IF i > Len(v) THEN 0
    ELSE (IF v[i].layer \in S THEN ToInt(v[i].count) ELSE 0) + CountWithin(v, S, i + 1)

Total(v) == CountWithin(v, {v[k].layer : k \in 1..Len(v)}, 1)

SignOf(n) == IF n < 0 THEN -1 ELSE IF n > 0 THEN 1 ELSE 0

\* c is inB / totalB - inA / totalA as the program computes it, and its sign
\* is that of the difference of the two fractions as rationals
FractionOrder(c, inA, totalA, inB, totalB) ==
    /\ c = NumSub(NumDiv(FromInt(inB), FromInt(totalB)), NumDiv(FromInt(inA), FromInt(totalA)))
    /\ Sign(c) = SignOf(inB * totalA - inA * totalB)

\* on equal dominant lists c is proportion(b) - proportion(a), the
\* proportions being the fractions of the totals of a and b that lie in the
\* dominant layers
ByProportion(c, a, b, da, db) ==
    da = db =>
        /\ FractionOrder(c, CountWithin(a, LayerSet(da), 1), Total(a),
                            CountWithin(b, LayerSet(da), 1), Total(b))
        /\ da = <<>> => Sign(c) = 0

\* C22: two class vectors with element-wise equal dominant lists are ordered
\* by the fraction of their total count that lies in the dominant layers,
\* the larger fraction first: cmp(a,b) = proportion(b) - proportion(a), 0 on
\* equal fractions, and always 0 when both dominant lists are empty.
C22_ByProportion ==
    pc = "sort" =>
        \A i, j \in 1..Len(data) :
            ByProportion(cmp[i][j], data[i].bubbleData, data[j].bubbleData,
                         DominantOf(i), DominantOf(j))

\* both vectors dominated by Presentation Layer alone, the first with the
\* larger share of it
C22_Witness ==
    /\ pc = "sort"
    /\ DominantOf(1) = <<Presentation>> /\ DominantOf(2) = <<Presentation>>
    /\ Len(data[1].bubbleData) = 2 /\ Len(data[2].bubbleData) = 3
    /\ Sign(cmp[1][2]) = -1 /\ Sign(cmp[2][1]) = 1

\* 0-based place of layer l in the LayerTable, -1 when it is not there
TableIndex(l) ==
    IF \E k \in 1..Len(layers) : layers[k] = l
        THEN (CHOOSE k \in 1..Len(layers) : layers[k] = l) - 1
        ELSE -1

\* twice the score: 200 for [], twice the index of a single layer, the sum of
\* the two indices of a pair
TwiceScore(d) ==
    IF Len(d) = 0 THEN 200
    ELSE IF Len(d) = 1 THEN 2 * TableIndex(d[1])
    ELSE TableIndex(d[1]) + TableIndex(d[2])

\* c is half the integer twice
HalfOf(c, twice) == c = NumDiv(FromInt(twice), FromInt(2)) /\ Sign(c) = SignOf(twice)

\* on different dominant lists c is score(da) - score(db)
ByScore(c, da, db) ==
    da # db =>
        /\ HalfOf(c, TwiceScore(da) - TwiceScore(db))
        /\ (da = <<>> /\ db # <<>>) => Sign(c) = 1
        /\ (Len(da) = 1 /\ Len(db) = 1 /\ TableIndex(da[1]) < TableIndex(db[1])) => Sign(c) = -1

\* C23: two class vectors whose dominant lists are not element-wise equal are
\* ordered by score: cmp(a,b) = score(a) - score(b), score([]) = 100,
\* score([L]) the LayerTable index of L, score([L1, L2]) the mean of the two
\* indices; so an empty dominant list comes after every non-empty one and an
\* earlier single layer before a later one.
C23_ByScore ==
    pc = "sort" =>
        \A i, j \in 1..Len(data) : ByScore(cmp[i][j], DominantOf(i), DominantOf(j))

\* a cross-cutting vector against one dominated by the pair Presentation
\* Layer, Service Layer
C23_Witness ==
    /\ pc = "sort"
    /\ DominantOf(1) = <<>>
    /\ DominantOf(2) = <<Presentation, Service>>
    /\ cmp[1][2] = NumDiv(FromInt(197), FromInt(2))
    /\ Sign(cmp[2][1]) = -1

(***************************************************************************)
(* The graph: package nodes, their class nodes, the method nodes of each   *)
(* class.  A node is a record of the properties the analysis reads and     *)
(* writes; a package is referred to by its position among the packages, a  *)
(* class by its position in its package.                                   *)
(***************************************************************************)
classesOf(pkg) == pkg.classes

methodsOf(clasz) == clasz.methods

\* method.property("layer") || "Undefined"
layerOf(method) ==
    IF method.layer \in {undefined, null, ""} THEN Undefined ELSE method.layer

\* utils.js hashHue: the value of the hash of lines 13-18 on the two layer
\* names of the model that hueMap does not hold
hashHue(s) == CASE s = Undefined -> 320 [] s = Utility -> 180

stringToHue(str) == IF str \in DOMAIN hueMap THEN hueMap[str] ELSE hashHue(str)

(***************************************************************************)
(* composition.js getBubbleDataWithContext                                 *)
(***************************************************************************)
\* the reducer that opens a new entry for every method
BumpNoGrouping(counts, layerType) ==
    Append(counts, [layer |-> layerType, count |-> NumAdd(Zero, FromInt(1))])

\* counts[layerType] = (counts[layerType] || 0) + 1; the keys of counts in
\* insertion order, as Object.entries lists them
Bump(counts, layerType) ==
    IF \E k \in 1..Len(counts) : counts[k].layer = layerType
        THEN [k \in 1..Len(counts) |->
                 IF counts[k].layer = layerType
                     THEN [counts[k] EXCEPT !.count = NumAdd(@, FromInt(1))]
                     ELSE counts[k]]
        ELSE Append(counts, [layer |-> layerType, count |-> NumAdd(Zero, FromInt(1))])

\* methodList.reduce of lines 31-35
RECURSIVE layerCounts(_, _, _)
layerCounts(methodList, i, counts) ==
    IF i > Len(methodList) THEN counts
    ELSE layerCounts(methodList, i + 1, Bump(counts, layerOf(methodList[i])))

\* lines 38-43
LayerEntries(ls, counts) ==
    [k \in 1..Len(counts) |->
        [layer |-> counts[k].layer,
         count |-> counts[k].count,
         valid |-> includes(ls, counts[k].layer),
         hue   |-> stringToHue(counts[k].layer)]]

\* the vector counted from the methods alone, without the entry of lines 47-54
getBubbleDataNoFallback(ls, c, methodList) ==
    [class |-> c, bubbleData |-> LayerEntries(ls, layerCounts(methodList, 1, <<>>))]

\* getBubbleData(clasz), clasz being class number c with the method nodes methodList
getBubbleData(ls, c, methodList) ==
    IF Len(methodList) > 0
        THEN [class |-> c, bubbleData |-> LayerEntries(ls, layerCounts(methodList, 1, <<>>))]
        ELSE [class |-> c,
              bubbleData |-> <<[layer |-> Undefined, count |-> FromInt(1),
                                valid |-> FALSE, hue |-> 0]>>]

(***************************************************************************)
(* composition.js getBubbleTeaDataWithContext                              *)
(***************************************************************************)
\* Array.prototype.flat on an array of arrays
RECURSIVE Flat(_, _)
Flat(arrs, i) == IF i > Len(arrs) THEN <<>> ELSE arrs[i] \o Flat(arrs, i + 1)

\* Array.from(new Set(...)) of the layers that are not null: first occurrences, in order
RECURSIVE UniqueLayers(_, _, _)
UniqueLayers(entries, i, acc) ==
    IF i > Len(entries) THEN acc
    ELSE IF entries[i].layer \in {null, undefined} \/ includes(acc, entries[i].layer)
        THEN UniqueLayers(entries, i + 1, acc)
    ELSE UniqueLayers(entries, i + 1, Append(acc, entries[i].layer))

\* the filter that keeps the first entry of the layer only
RECURSIVE FilterLayerOnce(_, _, _)
FilterLayerOnce(entries, layer, i) ==
    IF i > Len(entries) THEN <<>>
    ELSE IF entries[i].layer = layer THEN <<entries[i]>>
    ELSE FilterLayerOnce(entries, layer, i + 1)

\* filter(e => e.layer === layer)
RECURSIVE FilterLayer(_, _, _)
FilterLayer(entries, layer, i) ==
    IF i > Len(entries) THEN <<>>
    ELSE IF entries[i].layer = layer
        THEN <<entries[i]>> \o FilterLayer(entries, layer, i + 1)
    ELSE FilterLayer(entries, layer, i + 1)

\* lines 200-204, on the total of the vector
NormaliseBy(bd, totalCount) ==
    [i \in 1..Len(bd) |->
        [layer |-> bd[i].layer,
         count |-> IF NumGt(totalCount, Zero) THEN NumDiv(bd[i].count, totalCount) ELSE Zero]]

Normalise(bd) == NormaliseBy(bd, sum(Counts(bd)))

\* lines 222-223: count > 0 ? totalCount / count : 0
AverageOver(totalCount, count) ==
    IF count > 0 THEN NumDiv(totalCount, FromInt(count)) ELSE Zero

\* the average taken over the classes that hold the layer
averageCountOfHolders(pkgBubbleData, layerData, layer) ==
    [layer |-> layer,
     count |-> AverageOver(sum(Counts(layerData)), Len(layerData))]

\* lines 219-225 for one layer, layerData being the entries of the layer in
\* the normalised vectors of the classes
averageCount(pkgBubbleData, layerData, layer) ==
    [layer |-> layer,
     count |-> AverageOver(sum(Counts(layerData)), Len(pkgBubbleData))]

averageCounts(pkgBubbleData, uniqueLayers) ==
    [k \in 1..Len(uniqueLayers) |->
        averageCount(pkgBubbleData,
                     FilterLayer(Flat(pkgBubbleData, 1), uniqueLayers[k], 1),
                     uniqueLayers[k])]

\* lines 228-236
BubbleTea(ls, p, classData, average) ==
    [package       |-> p,
     dominant      |-> dominatingLayers(ls, average),
     bubbleTeaData |-> average,
     bubbleData    |-> classData]

\* lines 199-225, on the per-class bubble data
Aggregate(ls, p, classData) ==
    BubbleTea(ls, p, classData,
              averageCounts([c \in 1..Len(classData) |-> Normalise(classData[c].bubbleData)],
                            UniqueLayers(Flat([c \in 1..Len(classData) |-> classData[c].bubbleData], 1),
                                         1, <<>>)))

\* getBubbleTeaData(pkg), pkg being package number p
getBubbleTeaData(ls, p, pkg) ==
    Aggregate(ls, p, [c \in 1..Len(classesOf(pkg)) |->
                         getBubbleData(ls, c, methodsOf(classesOf(pkg)[c]))])

\* lines 190-192: cls.property("package", pkg) on every class of the package
MarkPackage(pkg, p) ==
    [pkg EXCEPT !.classes = [c \in 1..Len(pkg.classes) |-> [pkg.classes[c] EXCEPT !.package = p]]]

(***************************************************************************)
(* servingTable.js / signal.js: generateLayerOrder and the categorisation  *)
(***************************************************************************)
\* Array.prototype.slice(n)
slice(arr, n) == SubSeq(arr, n + 1, Len(arr))

\* arr[i] for a 0-based i, undefined outside the array
At(arr, i) == IF 0 <= i /\ i < Len(arr) THEN arr[i + 1] ELSE undefined

\* Array.prototype.join(", "): null and undefined join as the empty string
Str(x) == IF x \in {null, undefined} THEN "" ELSE x

RECURSIVE JoinFrom(_, _)
JoinFrom(arr, i) ==
    IF i > Len(arr) THEN "" ELSE ", " \o Str(arr[i]) \o JoinFrom(arr, i + 1)

join(arr) == IF Len(arr) = 0 THEN "" ELSE Str(arr[1]) \o JoinFrom(arr, 2)

\* the loop pushing each pair with the later layer first
RECURSIVE LayerOrderReversed(_, _)
LayerOrderReversed(ls, i) ==
    IF i < Len(ls) - 1
        THEN <<<<At(ls, i)>>, <<At(ls, i + 1), At(ls, i)>>>> \o LayerOrderReversed(ls, i + 1)
        ELSE <<>>

\* the loop of generateLayerOrder, i being 0-based
RECURSIVE LayerOrderFrom(_, _)
LayerOrderFrom(ls, i) ==
    IF i < Len(ls) - 1
        THEN <<<<At(ls, i)>>, <<At(ls, i), At(ls, i + 1)>>>> \o LayerOrderFrom(ls, i + 1)
        ELSE <<>>

generateLayerOrder(ls) ==
    LayerOrderFrom(ls, 0) \o <<<<At(ls, Len(ls) - 1)>>, <<>>>>

\* the object layersMap: its own keys in insertion order, each with its array
HasKey(map, key) == \E k \in 1..Len(map) : map[k].key = key

\* layersMap[key] = []
SetEmpty(map, key) ==
    IF HasKey(map, key)
        THEN [k \in 1..Len(map) |-> IF map[k].key = key THEN [map[k] EXCEPT !.items = <<>>] ELSE map[k]]
        ELSE Append(map, [key |-> key, items |-> <<>>])

\* layersMap[key].push(x)
Push(map, key, x) ==
    [k \in 1..Len(map) |-> IF map[k].key = key THEN [map[k] EXCEPT !.items = Append(@, x)] ELSE map[k]]

\* layerOrder.forEach(layer => (layersMap[layer.join(", ")] = []))
RECURSIVE EmptyBuckets(_, _, _)
EmptyBuckets(layerOrder, i, map) ==
    IF i > Len(layerOrder) THEN map
    ELSE EmptyBuckets(layerOrder, i + 1, SetEmpty(map, join(layerOrder[i])))

\* dominant.sort((a, b) => layers.indexOf(a) - layers.indexOf(b)): a stable
\* sort on the indices
RECURSIVE InsertByIndex(_, _, _)
InsertByIndex(ls, arr, x) ==
    IF Len(arr) = 0 THEN <<x>>
    ELSE IF indexOf(ls, arr[Len(arr)]) - indexOf(ls, x) > 0
        THEN Append(InsertByIndex(ls, SubSeq(arr, 1, Len(arr) - 1), x), arr[Len(arr)])
    ELSE Append(arr, x)

RECURSIVE SortByIndex(_, _)
SortByIndex(ls, arr) ==
    IF Len(arr) <= 1 THEN arr
    ELSE InsertByIndex(ls, SortByIndex(ls, SubSeq(arr, 1, Len(arr) - 1)), arr[Len(arr)])

\* the placement that leaves out the aggregates whose key matches no bucket
PlaceMatchedOnly(st, i, sortedDominant, key) ==
    IF HasKey(st.map, key)
        THEN [arr |-> [st.arr EXCEPT ![i].dominant = sortedDominant],
              map |-> Push(st.map, key, i)]
        ELSE [arr |-> [st.arr EXCEPT ![i].dominant = <<>>],
              map |-> st.map]

\* lines 90-96 for aggregate i, whose dominant array has been sorted in place
\* and joined into key; st holds the array of aggregates and layersMap
Place(st, i, sortedDominant, key) ==
    IF HasKey(st.map, key)
        THEN [arr |-> [st.arr EXCEPT ![i].dominant = sortedDominant],
              map |-> Push(st.map, key, i)]
        ELSE [arr |-> [st.arr EXCEPT ![i].dominant = <<>>],
              map |-> Push(st.map, "", i)]

\* the key taken from the dominant array as it stands, without the sort
KeyUnsorted(ls, st, i) ==
    Place(st, i, st.arr[i].dominant, join(st.arr[i].dominant))

\* lines 86-88 for aggregate i
KeyAndPlace(ls, st, i) ==
    Place(st, i, SortByIndex(ls, st.arr[i].dominant),
          join(SortByIndex(ls, st.arr[i].dominant)))

\* bubbleTeaDataArray.forEach of lines 84-97
RECURSIVE PlaceFrom(_, _, _)
PlaceFrom(ls, st, i) ==
    IF i > Len(st.arr) THEN st ELSE PlaceFrom(ls, KeyAndPlace(ls, st, i), i + 1)

\* the array of aggregates as the categorisation leaves it (arr) and the
\* layersMap it returns (map)
categorizeBubbleTeaData(arr, ls, layerOrder) ==
    PlaceFrom(ls, [arr |-> arr, map |-> EmptyBuckets(layerOrder, 1, <<>>)], 1)

\* the items of every bucket with a non-empty key, in the order of the keys
RECURSIVE MainItems(_, _)
MainItems(map, k) ==
    IF k > Len(map) THEN <<>>
    ELSE IF map[k].key = "" THEN MainItems(map, k + 1)
    ELSE map[k].items \o MainItems(map, k + 1)

\* the items of the bucket of key
ItemsOf(map, key) == Flat([k \in 1..Len(map) |-> IF map[k].key = key THEN map[k].items ELSE <<>>], 1)

\* the order in which drawServingTable hands the aggregates to drawBubbleTea:
\* the cross-cutting bucket first, then the other buckets
DrawOrder(map) == ItemsOf(map, "") \o MainItems(map, 1)

(***************************************************************************)
(* part_002 drawBubbleTeaWithContext: the effects on the aggregate and on  *)
(* the graph                                                               *)
(***************************************************************************)
\* lines 67 and 71
LayerLabel(dominantLayers) ==
    IF Len(dominantLayers) = 0 THEN "Cross-cutting" ELSE join(dominantLayers)

\* the annotation that adds the label to the "layer" a package already has
AnnotateAppending(ls, pkg, tea) ==
    [pkg EXCEPT
        !.layer = IF @ = undefined THEN LayerLabel(tea.dominant)
                  ELSE @ \o ", " \o LayerLabel(tea.dominant),
        !.classes = [c \in 1..Len(pkg.classes) |->
                        [pkg.classes[c] EXCEPT
                            !.layer = LayerLabel(dominatingLayers(ls, VecOf(tea.bubbleData, c)))]]]

\* lines 67-73: the "layer" property of the package and of each of its classes
Annotate(ls, pkg, tea) ==
    [pkg EXCEPT
        !.layer = LayerLabel(tea.dominant),
        !.classes = [c \in 1..Len(pkg.classes) |->
                        [pkg.classes[c] EXCEPT
                            !.layer = LayerLabel(dominatingLayers(ls, VecOf(tea.bubbleData, c)))]]]

(***************************************************************************)
(* The pipeline of renderServingTable:                                      *)
(*   drawServingTable(packages.map(getBubbleTeaData))                       *)
(***************************************************************************)
\* tooltip.js 493: no package, nothing is drawn
RenderNothing ==
    /\ pc = "aggregate"
    /\ Len(graph) = 0
    /\ pc' = "done"
    /\ UNCHANGED <<layers, pipeVars, passVars, outsidePipe>>

\* packages.map(getBubbleTeaData), one package at a time
GetBubbleTeaData ==
    /\ pc = "aggregate"
    /\ Len(bubbleTeaDataArray) < Len(graph)
    /\ bubbleTeaDataArray' =
           Append(bubbleTeaDataArray,
                  getBubbleTeaData(layers, Len(bubbleTeaDataArray) + 1,
                                   graph[Len(bubbleTeaDataArray) + 1]))
    /\ graph' = [graph EXCEPT ![Len(bubbleTeaDataArray) + 1] =
                                  MarkPackage(@, Len(bubbleTeaDataArray) + 1)]
    /\ returned' = Append(returned,
                           getBubbleTeaData(layers, Len(bubbleTeaDataArray) + 1,
                                            graph[Len(bubbleTeaDataArray) + 1]))
    /\ pc' = IF Len(bubbleTeaDataArray) + 1 = Len(graph) THEN "categorize" ELSE "aggregate"
    /\ UNCHANGED <<layers, layersMap, drawn, pass, firstPass, outsidePipe>>

\* drawServingTable up to the categorisation (servingTable.js 25-39)
Categorize ==
    /\ pc = "categorize"
    /\ \E st \in {categorizeBubbleTeaData(bubbleTeaDataArray, layers,
                                          generateLayerOrder(slice(layers, 1)))} :
           /\ bubbleTeaDataArray' = st.arr
           /\ layersMap' = st.map
    /\ drawn' = 0
    /\ pc' = "draw"
    /\ UNCHANGED <<layers, graph, passVars, outsidePipe>>

\* drawBubbleTea on aggregate i: nothing for a package without classes,
\* otherwise the in-place sort of its bubbles and the layer annotations
DrawEffects(i) ==
    IF Len(bubbleTeaDataArray[i].bubbleData) = 0
        THEN UNCHANGED <<bubbleTeaDataArray, graph>>
        ELSE /\ \E arr \in SortOutcomes(CompareTable(layers, bubbleTeaDataArray[i].bubbleData),
                                        bubbleTeaDataArray[i].bubbleData) :
                    bubbleTeaDataArray' = [bubbleTeaDataArray EXCEPT ![i].bubbleData = arr]
             /\ graph' = [graph EXCEPT ![bubbleTeaDataArray[i].package] =
                                           Annotate(layers, @, bubbleTeaDataArray[i])]

\* items.map(drawBubbleTea), bucket after bucket, one aggregate at a time
DrawBubbleTea ==
    /\ pc = "draw"
    /\ drawn < Len(DrawOrder(layersMap))
    /\ DrawEffects(DrawOrder(layersMap)[drawn + 1])
    /\ drawn' = drawn + 1
    /\ pc' = IF drawn + 1 = Len(DrawOrder(layersMap)) THEN "done" ELSE "draw"
    /\ UNCHANGED <<layers, layersMap, passVars, outsidePipe>>

NextPipe == RenderNothing \/ GetBubbleTeaData \/ Categorize \/ DrawBubbleTea

(***************************************************************************)
(* SpecPipe: the pipeline on every graph of at most MaxNodes nodes         *)
(***************************************************************************)
MaxNodes == 6

\* the values of the "layer" property of a method node
MethodLayers == {Presentation, Service, undefined}

MethodNodes == {[layer |-> l] : l \in MethodLayers}

\* a class node with its method nodes, s nodes in all
ClassesOfSize(s) ==
    {[package |-> undefined, layer |-> undefined, methods |-> m] :
        m \in [1..(s - 1) -> MethodNodes]}

\* the arrays of class nodes that have t nodes in all
RECURSIVE ClassSeqs(_)
ClassSeqs(t) ==
    IF t = 0 THEN {<<>>}
    ELSE UNION {{<<c>> \o rest : c \in ClassesOfSize(s), rest \in ClassSeqs(t - s)} : s \in 1..t}

\* a package node with its classes, s nodes in all
PackagesOfSize(s) ==
    {[layer |-> undefined, classes |-> cs] : cs \in ClassSeqs(s - 1)}

\* the arrays of package nodes that have t nodes in all
RECURSIVE PackageSeqs(_)
PackageSeqs(t) ==
    IF t = 0 THEN {<<>>}
    ELSE UNION {{<<q>> \o rest : q \in PackagesOfSize(s), rest \in PackageSeqs(t - s)} : s \in 1..t}

Graphs == UNION {PackageSeqs(t) : t \in 0..MaxNodes}

InitPipeOn(graphs) ==
    /\ pc = "aggregate"
    /\ layers \in LayerTables
    /\ graph \in graphs
    /\ bubbleTeaDataArray = <<>> /\ layersMap = <<>> /\ drawn = 0
    /\ pass = 1 /\ returned = <<>> /\ firstPass = <<>>
    /\ IdleDom /\ IdleOrder /\ IdleCtx /\ IdleGraph

InitPipe == InitPipeOn(Graphs)

SpecPipe == InitPipe /\ [][NextPipe]_vars

\* the layer a method counts for: its layer value, "Undefined" when it has none
GroupOf(method) == IF method.layer = undefined THEN "Undefined" ELSE method.layer

\* how many methods of the class count for layer l
MethodsWithLayer(clasz, l) ==
    Cardinality({k \in 1..Len(clasz.methods) : GroupOf(clasz.methods[k]) = l})

\* C10: for a class with at least one method the vector has exactly one entry
\* per distinct layer value of its methods (no layer counting as Undefined),
\* the layers of the entries are pairwise distinct, each count is the number
\* of methods with that layer, and the counts sum to the number of methods.
C10_Grouping ==
    \A p \in 1..Len(bubbleTeaDataArray) : \A c \in 1..Len(graph[p].classes) :
        Len(graph[p].classes[c].methods) > 0 =>
            /\ {e.layer : e \in {VecOf(bubbleTeaDataArray[p].bubbleData, c)[i] :
                                    i \in 1..Len(VecOf(bubbleTeaDataArray[p].bubbleData, c))}}
                   = {GroupOf(graph[p].classes[c].methods[k]) :
                         k \in 1..Len(graph[p].classes[c].methods)}
            /\ DistinctLayers(VecOf(bubbleTeaDataArray[p].bubbleData, c))
            /\ \A i \in 1..Len(VecOf(bubbleTeaDataArray[p].bubbleData, c)) :
                   VecOf(bubbleTeaDataArray[p].bubbleData, c)[i].count
                       = FromInt(MethodsWithLayer(graph[p].classes[c],
                                     VecOf(bubbleTeaDataArray[p].bubbleData, c)[i].layer))
            /\ sum(Counts(VecOf(bubbleTeaDataArray[p].bubbleData, c)))
                   = FromInt(Len(graph[p].classes[c].methods))

\* a class of three methods, two of them without a layer
C10_Witness ==
    \E p \in 1..Len(bubbleTeaDataArray) : \E c \in 1..Len(graph[p].classes) :
        /\ Len(graph[p].classes[c].methods) = 3
        /\ MethodsWithLayer(graph[p].classes[c], "Undefined") = 2
        /\ graph[p].classes[c].methods[2].layer = Service
        /\ Len(VecOf(bubbleTeaDataArray[p].bubbleData, c)) = 2
        /\ VecOf(bubbleTeaDataArray[p].bubbleData, c)[1].layer = "Undefined"
        /\ VecOf(bubbleTeaDataArray[p].bubbleData, c)[1].count = FromInt(2)

\* the vector of a class as the claim counts it: the methods per layer, and
\* the single Undefined of a class without methods
ClassLayers(clasz) ==
    IF Len(clasz.methods) = 0 THEN {"Undefined"}
    ELSE {GroupOf(clasz.methods[k]) : k \in 1..Len(clasz.methods)}

ClassCount(clasz, l) ==
    IF Len(clasz.methods) = 0 THEN (IF l = "Undefined" THEN 1 ELSE 0)
    ELSE MethodsWithLayer(clasz, l)

ClassTotal(clasz) == IF Len(clasz.methods) = 0 THEN 1 ELSE Len(clasz.methods)

\* the class's count for the layer divided by the class's total, 0 when the
\* class lacks the layer
Share(clasz, l) ==
    IF ClassCount(clasz, l) = 0 THEN Zero
    ELSE NumDiv(FromInt(ClassCount(clasz, l)), FromInt(ClassTotal(clasz)))

RECURSIVE ShareSum(_, _, _, _)
ShareSum(classes, l, c, acc) ==
    IF c > Len(classes) THEN acc
    ELSE ShareSum(classes, l, c + 1, NumAdd(acc, Share(classes[c], l)))

ExpectedAverage(classes, l) == NumDiv(ShareSum(classes, l, 1, Zero), FromInt(Len(classes)))

AveragedAsClaimed(classes, tea) ==
    /\ {tea.bubbleTeaData[k].layer : k \in 1..Len(tea.bubbleTeaData)}
           = UNION {ClassLayers(classes[c]) : c \in 1..Len(classes)}
    /\ DistinctLayers(tea.bubbleTeaData)
    /\ \A k \in 1..Len(tea.bubbleTeaData) :
           tea.bubbleTeaData[k].count = ExpectedAverage(classes, tea.bubbleTeaData[k].layer)
    /\ \A l \in UNION {ClassLayers(classes[c]) : c \in 1..Len(classes)} :
           (\A c \in 1..Len(classes) : ClassLayers(classes[c]) = {l}) =>
               /\ tea.bubbleTeaData = <<[layer |-> l, count |-> FromInt(1)]>>
               /\ tea.dominant = <<l>>
    /\ Len(classes) = 0 => (tea.bubbleTeaData = <<>> /\ tea.dominant = <<>>)

\* C8: the averaged vector of a package of N classes has exactly one entry per
\* distinct layer of its classes' vectors, with the count (sum over the
\* classes of the class's share of the layer, 0 when it lacks the layer) / N;
\* classes that all hold only layer L give the single entry {L, 1} and
\* dominant [L]; no class gives the empty vector and dominant [].
C8_Average ==
    pc \in {"aggregate", "categorize"} =>
        \A p \in 1..Len(bubbleTeaDataArray) :
            AveragedAsClaimed(graph[p].classes, bubbleTeaDataArray[p])

\* two classes, the second layer held by one of them only
C8_Witness ==
    /\ pc = "categorize"
    /\ \E p \in 1..Len(bubbleTeaDataArray) :
           /\ Len(graph[p].classes) = 2
           /\ ClassCount(graph[p].classes[1], Service) = 0
           /\ Len(bubbleTeaDataArray[p].bubbleTeaData) = 2
           /\ bubbleTeaDataArray[p].bubbleTeaData[2]
                  = [layer |-> Service, count |-> NumDiv(FromInt(1), FromInt(4))]

\* aggregate i is in the bucket of key
InBucket(map, key, i) ==
    \E k \in 1..Len(map) : map[k].key = key /\ \E n \in 1..Len(map[k].items) : map[k].items[n] = i

\* the places of the buckets at which aggregate i stands
Places(map, i) ==
    {<<k, n>> \in (1..Len(map)) \X (1..Len(bubbleTeaDataArray)) :
        n <= Len(map[k].items) /\ map[k].items[n] = i}

RECURSIVE TotalLength(_, _)
TotalLength(map, k) ==
    IF k > Len(map) THEN 0 ELSE Len(map[k].items) + TotalLength(map, k + 1)

\* the product of the totals of the class vectors from class c on
RECURSIVE TotalsProduct(_, _)
TotalsProduct(classData, c) ==
    IF c > Len(classData) THEN 1
    ELSE Total(classData[c].bubbleData) * TotalsProduct(classData, c + 1)

\* the sum over the classes from c on of the class's share of layer l, a
\* class that lacks the layer having the share 0, as a multiple of 1/d, d
\* being the product of the totals
RECURSIVE ShareNumerator(_, _, _, _)
ShareNumerator(classData, l, c, d) ==
    IF c > Len(classData) THEN 0
    ELSE CountWithin(classData[c].bubbleData, {l}, 1) * (d \div Total(classData[c].bubbleData))
             + ShareNumerator(classData, l, c + 1, d)

RECURSIVE NumeratorSum(_, _, _, _)
NumeratorSum(classData, tea, k, d) ==
    IF k > Len(tea) THEN 0
    ELSE ShareNumerator(classData, tea[k].layer, 1, d) + NumeratorSum(classData, tea, k + 1, d)

\* |a - b| on the fixed-point numbers a and b
Distance(a, b) == IF BigCmp(a, b) >= 0 THEN BigSub(a, b) ELSE BigSub(b, a)

\* the number count is the fraction numer / denom up to the rounding of the
\* program's arithmetic: they differ by at most 2^-50
NearFraction(count, numer, denom) ==
    /\ count.k = "fin"
    /\ BigCmp(Distance(BigMulSmall(count.v, denom), FromInt(numer).v),
              BigMulSmall(<<0, 0, 0, 2^(FracBits - 50)>>, denom)) <= 0

\* entry of the averaged vector: its exact value numer / denom lies in (0, 1]
\* and so does the number the program holds for it
MeanShare(entry, numer, denom) ==
    /\ 0 < numer /\ numer <= denom
    /\ NearFraction(entry.count, numer, denom)
    /\ NumGt(entry.count, Zero) /\ ~NumGt(entry.count, FromInt(1))

\* the averaged vector of the aggregate t, d being the product of the totals
\* of its class vectors: one entry per layer, every entry the mean of the
\* classes' shares of its layer, and these means add up to exactly 1
SharesSumToOne(t, d) ==
    /\ \A j, k \in 1..Len(t.bubbleTeaData) :
           j # k => t.bubbleTeaData[j].layer # t.bubbleTeaData[k].layer
    /\ \A k \in 1..Len(t.bubbleTeaData) :
           MeanShare(t.bubbleTeaData[k],
                     ShareNumerator(t.bubbleData, t.bubbleTeaData[k].layer, 1, d),
                     Len(t.bubbleData) * d)
    /\ NumeratorSum(t.bubbleData, t.bubbleTeaData, 1, d) = Len(t.bubbleData) * d

\* C27: for a package with at least one class the counts of the averaged
\* vector, taken as the exact rationals they stand for (the means over the
\* classes of the classes' shares, 0 for a class that lacks the layer), sum to
\* exactly 1, and every count lies in (0, 1].
C27_SumsToOne ==
    \A p \in 1..Len(returned) :
        Len(returned[p].bubbleData) >= 1 =>
            SharesSumToOne(returned[p], TotalsProduct(returned[p].bubbleData, 1))

\* a package of two classes, the first holding both layers and the second
\* one of them only
C27_Witness ==
    /\ Len(returned) >= 1
    /\ Len(returned[1].bubbleData) = 2
    /\ Len(returned[1].bubbleData[1].bubbleData) = 2
    /\ Len(returned[1].bubbleData[2].bubbleData) = 1
    /\ Total(returned[1].bubbleData[1].bubbleData) = 3
    /\ Len(returned[1].bubbleTeaData) = 2

\* C4: after the categorisation every aggregate of the input stands in exactly
\* one bucket list, exactly once, and the lengths of the bucket lists sum to
\* the length of the input.
C4_Complete ==
    pc = "draw" =>
        /\ \A i \in 1..Len(bubbleTeaDataArray) : Cardinality(Places(layersMap, i)) = 1
        /\ TotalLength(layersMap, 1) = Len(bubbleTeaDataArray)

\* two packages, one in a named bucket and one whose key matches no bucket
C4_Witness ==
    /\ pc = "draw"
    /\ Len(bubbleTeaDataArray) = 2
    /\ InBucket(layersMap, Service, 1)
    /\ dominatingLayers(layers, bubbleTeaDataArray[2].bubbleTeaData) = <<"Undefined">>
    /\ InBucket(layersMap, "", 2)

\* a dominant array of at most two layers in LayerTable order
InTableOrder(ls, d) ==
    IF Len(d) = 2 /\ indexOf(ls, d[1]) > indexOf(ls, d[2]) THEN <<d[2], d[1]>> ELSE d

KeyText(d) ==
    IF Len(d) = 0 THEN ""
    ELSE IF Len(d) = 1 THEN d[1]
    ELSE d[1] \o ", " \o d[2]

\* aggregate i, whose dominant array was d before the categorisation, is
\* placed as C5 says in the map, its dominant array being after afterwards
PlacedAsClaimed(ls, map, i, d, after) ==
    IF d = <<>>
        THEN /\ InBucket(map, "", i)
             /\ \A k \in 1..Len(map) : map[k].key # "" => ~InBucket(map, map[k].key, i)
    ELSE IF HasKey(map, KeyText(InTableOrder(ls, d)))
        THEN InBucket(map, KeyText(InTableOrder(ls, d)), i)
    ELSE after = <<>> /\ InBucket(map, "", i)

\* C5: the categorisation places a package in the bucket whose key is its
\* dominant array sorted into LayerTable order and joined; a package with
\* dominant [] goes to the cross-cutting bucket (key "") and to no named
\* bucket; a package whose key matches no bucket has its dominant reset to []
\* and goes to the cross-cutting bucket.
C5_Placement ==
    [][(pc = "categorize" /\ pc' = "draw") =>
           \A i \in 1..Len(bubbleTeaDataArray) :
               PlacedAsClaimed(layers, layersMap', i, bubbleTeaDataArray[i].dominant,
                               bubbleTeaDataArray'[i].dominant)]_vars

\* a package whose dominant pair was sorted into the key of a pair bucket
C5_Witness ==
    /\ pc = "draw"
    /\ \E i \in 1..Len(bubbleTeaDataArray) :
           /\ dominatingLayers(layers, bubbleTeaDataArray[i].bubbleTeaData) = <<Service, Presentation>>
           /\ bubbleTeaDataArray[i].dominant = <<Presentation, Service>>
           /\ InBucket(layersMap, "Presentation Layer, Service Layer", i)

\* the entry that stands for a class without methods (lines 47-54)
NoMethodsEntry == [layer |-> "Undefined", count |-> FromInt(1), valid |-> FALSE, hue |-> 0]

\* the vector is not empty, its total is at least 1, and neither the
\* normalisation nor the comparator's proportion divides by zero on it
SafeVector(ls, bd) ==
    /\ Len(bd) >= 1
    /\ ~NumLt(sum(Counts(bd)), FromInt(1))
    /\ NumGt(sum(Counts(bd)), Zero)
    /\ \A i \in 1..Len(bd) : Normalise(bd)[i].count # NaN
    /\ calculateProportion(bd, dominatingLayers(ls, bd)) # NaN

\* C11: every class vector that getBubbleData produces is non-empty and has a
\* total count of at least 1; a class without methods yields exactly the
\* entry {layer "Undefined", count 1, valid false, hue 0}; so neither the
\* comparator's proportion nor the aggregator's normalisation divides by zero.
C11_NonEmptyVectors ==
    \A p \in 1..Len(bubbleTeaDataArray) : \A c \in 1..Len(graph[p].classes) :
        /\ SafeVector(layers, VecOf(bubbleTeaDataArray[p].bubbleData, c))
        /\ Len(graph[p].classes[c].methods) = 0 =>
               VecOf(bubbleTeaDataArray[p].bubbleData, c) = <<NoMethodsEntry>>

\* a package of a class without methods and a class of two methods
C11_Witness ==
    \E p \in 1..Len(bubbleTeaDataArray) :
        /\ Len(graph[p].classes) = 2
        /\ Len(graph[p].classes[1].methods) = 0
        /\ Len(graph[p].classes[2].methods) = 2
        /\ VecOf(bubbleTeaDataArray[p].bubbleData, 1) = <<NoMethodsEntry>>
        /\ Len(VecOf(bubbleTeaDataArray[p].bubbleData, 2)) = 2

(***************************************************************************)
(* SpecRerun: renderServingTable run a second time on the graph that the   *)
(* first run has annotated                                                 *)
(***************************************************************************)
\* the second call of renderServingTable(context, chartContainer)
RenderAgain ==
    /\ pc = "done"
    /\ pass = 1
    /\ firstPass' = [graph |-> graph, returned |-> returned]
    /\ pass' = 2
    /\ returned' = <<>>
    /\ bubbleTeaDataArray' = <<>> /\ layersMap' = <<>> /\ drawn' = 0
    /\ pc' = "aggregate"
    /\ UNCHANGED <<layers, graph, outsidePipe>>

NextRerun == NextPipe \/ RenderAgain

SpecRerun == InitPipe /\ [][NextRerun]_vars

\* the "layer" property of every method node of the graph
MethodLayerOf(g) ==
    [p \in 1..Len(g) |-> [c \in 1..Len(g[p].classes) |->
        [k \in 1..Len(g[p].classes[c].methods) |-> g[p].classes[c].methods[k].layer]]]

\* C17: the writes of the analysis are idempotent and leave its input alone:
\* no step changes the "layer" property of a method; in a second run of
\* getBubbleTeaData and of the annotation of the drawing no node property
\* changes relative to the state after the first run, and every aggregate
\* returned equals the one the first run returned.
C17_Idempotent ==
    [][/\ MethodLayerOf(graph') = MethodLayerOf(graph)
       /\ pass' = 2 =>
              /\ graph' = graph
              /\ graph' = firstPass'.graph
              /\ \A p \in 1..Len(returned') : returned'[p] = firstPass'.returned[p]]_vars

\* the second run has ended on a package whose "layer" the first run set to
\* Cross-cutting after the bucketing had emptied its dominant array
C17_Witness ==
    /\ pass = 2
    /\ pc = "done"
    /\ Len(graph) = 2
    /\ Len(returned) = 2
    /\ Len(graph[1].classes) = 1 /\ Len(graph[2].classes) = 1
    /\ firstPass.returned[1].dominant = <<"Undefined">>
    /\ returned[1].dominant = <<"Undefined">>
    /\ graph[1].layer = "Cross-cutting"
    /\ graph[1].classes[1].package = 1
    /\ graph[2].classes[1].layer = Service

\* the classes of the bubbles in the order of the array
ClassOrder(arr) == [k \in 1..Len(arr) |-> arr[k].class]

\* C16: an aggregate is not modified after getBubbleTeaData has returned it:
\* through the bucketing and the drawing its dominant array (contents and
\* order) and the order of its bubbleData array stay as they were returned.
C16_NotModified ==
    \A p \in 1..Len(bubbleTeaDataArray) :
        /\ bubbleTeaDataArray[p].dominant = returned[p].dominant
        /\ ClassOrder(bubbleTeaDataArray[p].bubbleData) = ClassOrder(returned[p].bubbleData)

(***************************************************************************)
(* tooltip.js buildContext and bfsSort: the LayerTable of the context      *)
(***************************************************************************)
\* the layer nodes of the graph, by id, and their "simpleName" property
LayerNodeIds == {"ui", "svc", "dom", "db"}

simpleName(id) ==
    CASE id = "ui" -> Presentation [] id = "svc" -> Service
      [] id = "dom" -> Domain [] id = "db" -> DataSource

\* Set.prototype.add on a Set kept in insertion order
SetAdd(set, x) == IF includes(set, x) THEN set ELSE Append(set, x)

\* lines 413-419: the Sets sources and targets
RECURSIVE SourcesFrom(_, _, _)
SourcesFrom(edges, i, acc) ==
    IF i > Len(edges) THEN acc ELSE SourcesFrom(edges, i + 1, SetAdd(acc, edges[i].source))

RECURSIVE TargetsFrom(_, _, _)
TargetsFrom(edges, i, acc) ==
    IF i > Len(edges) THEN acc ELSE TargetsFrom(edges, i + 1, SetAdd(acc, edges[i].target))

\* the search that takes the first source, target or not
FirstSource(sources, targets, i) ==
    IF i > Len(sources) THEN null ELSE sources[i]

\* lines 422-428: the first source that is not a target, null if there is none
RECURSIVE FirstRoot(_, _, _)
FirstRoot(sources, targets, i) ==
    IF i > Len(sources) THEN null
    ELSE IF ~includes(targets, sources[i]) THEN sources[i]
    ELSE FirstRoot(sources, targets, i + 1)

findRoot(edges) == FirstRoot(SourcesFrom(edges, 1, <<>>), TargetsFrom(edges, 1, <<>>), 1)

\* the discovery that puts a new vertex at the front of the queue
Unshift(st, target) ==
    [queue |-> <<target>> \o st.queue, visited |-> SetAdd(st.visited, target)]

\* the push that leaves the Set visited as it was
EnqueueUnmarked(st, target) ==
    [queue |-> Append(st.queue, target), visited |-> st.visited]

\* lines 448-449: queue.push(edge.target()); visited.add(edge.target())
Enqueue(st, target) ==
    [queue |-> Append(st.queue, target), visited |-> SetAdd(st.visited, target)]

\* lines 446-451: edgeList.forEach on the edges of current, st being the queue
\* and the Set visited
RECURSIVE Discover(_, _, _, _)
Discover(edges, current, i, st) ==
    IF i > Len(edges) THEN st
    ELSE IF edges[i].source = current /\ ~includes(st.visited, edges[i].target)
        THEN Discover(edges, current, i + 1, Enqueue(st, edges[i].target))
    ELSE Discover(edges, current, i + 1, st)

\* line 371: .map(l => l.property("simpleName"))
SimpleNames(nodes) == [i \in 1..Len(nodes) |-> simpleName(nodes[i])]

\* lines 372-374: hueMap[l] = i * Math.floor(360 / layers.length), i from 0
WriteHues(map, names) ==
    [l \in DOMAIN map \cup {names[i] : i \in 1..Len(names)} |->
        IF includes(names, l) THEN indexOf(names, l) * (360 \div Len(names)) ELSE map[l]]

\* lines 376-378: no allowedDependency edge
UseDefaultLayers ==
    /\ pc = "context"
    /\ Len(edgeList) = 0
    /\ layers' = DefaultLayers
    /\ pc' = "built"
    /\ UNCHANGED <<ctxVars, outsideCtx>>

\* bfsSort lines 412-437: the root, or the Error that ends buildContext
FindRoot ==
    /\ pc = "context"
    /\ Len(edgeList) > 0
    /\ IF findRoot(edgeList) = null
           THEN /\ thrown' = "No root found. Ensure there is a node that never appears as a target."
                /\ pc' = "failed"
                /\ UNCHANGED <<root, queue, visited, result>>
           ELSE /\ root' = findRoot(edgeList)
                /\ queue' = <<findRoot(edgeList)>>
                /\ visited' = <<findRoot(edgeList)>>
                /\ result' = <<>>
                /\ pc' = "bfs"
                /\ UNCHANGED thrown
    /\ UNCHANGED <<layers, edgeList, hues, outsideCtx>>

\* bfsSort lines 440-452: one turn of the while loop
Visit ==
    /\ pc = "bfs"
    /\ Len(queue) > 0
    /\ result' = Append(result, Head(queue))
    /\ \E st \in {Discover(edgeList, Head(queue), 1, [queue |-> Tail(queue), visited |-> visited])} :
           /\ queue' = st.queue
           /\ visited' = st.visited
    /\ UNCHANGED <<pc, layers, edgeList, root, thrown, hues, outsideCtx>>

\* bfsSort returns; buildContext lines 371-375
DeriveLayers ==
    /\ pc = "bfs"
    /\ Len(queue) = 0
    /\ hues' = WriteHues(hues, SimpleNames(result))
    /\ layers' = <<null>> \o SimpleNames(result)
    /\ pc' = "built"
    /\ UNCHANGED <<edgeList, root, queue, visited, result, thrown, outsideCtx>>

NextCtx == UseDefaultLayers \/ FindRoot \/ Visit \/ DeriveLayers

(***************************************************************************)
(* SpecCtx: buildContext on every list of at most MaxEdges                 *)
(* allowedDependency edges between the layer nodes                         *)
(***************************************************************************)
MaxEdges == 3

DependencyEdges == {[source |-> s, target |-> t] : s \in LayerNodeIds, t \in LayerNodeIds}

InitCtx ==
    /\ pc = "context"
    /\ layers = undefined
    /\ \E n \in 0..MaxEdges : edgeList \in [1..n -> DependencyEdges]
    /\ root = null /\ queue = <<>> /\ visited = <<>> /\ result = <<>>
    /\ thrown = null /\ hues = hueMap
    /\ IdleDom /\ IdleOrder /\ IdlePipe /\ IdleGraph

SpecCtx == InitCtx /\ [][NextCtx]_vars

\* the vertices of the edge list: every edge source and every edge target
Vertices == {edgeList[i].source : i \in 1..Len(edgeList)} \cup {edgeList[i].target : i \in 1..Len(edgeList)}

\* the sources that never appear as a target
RootCandidates ==
    {v \in Vertices : (\E i \in 1..Len(edgeList) : edgeList[i].source = v)
                      /\ (\A i \in 1..Len(edgeList) : edgeList[i].target # v)}

\* the first of them in the order of the edge list
FirstCandidate ==
    edgeList[CHOOSE i \in 1..Len(edgeList) :
                 /\ edgeList[i].source \in RootCandidates
                 /\ \A j \in 1..(i - 1) : edgeList[j].source \notin RootCandidates].source

\* the vertices that can be reached from the vertices of S along the edges
RECURSIVE ReachableFrom(_)
ReachableFrom(S) ==
    IF {edgeList[i].target : i \in {j \in 1..Len(edgeList) : edgeList[j].source \in S}} \subseteq S
        THEN S
        ELSE ReachableFrom(S \cup {edgeList[i].target :
                                      i \in {j \in 1..Len(edgeList) : edgeList[j].source \in S}})

\* the node whose simpleName is name
NodeNamed(name) == CHOOSE id \in LayerNodeIds : simpleName(id) = name

\* the nodes of the real layers of the table, in the order of the table
TableNodes == [i \in 1..(Len(layers) - 1) |-> NodeNamed(layers[i + 1])]

\* where the vertex is discovered: the place in order of the first vertex
\* with an edge to it, and the place of the first such edge in the edge list
DiscoveredAt(order, v) ==
    LET parent == CHOOSE k \in 1..Len(order) :
                      /\ \E i \in 1..Len(edgeList) :
                             edgeList[i].source = order[k] /\ edgeList[i].target = v
                      /\ \A m \in 1..(k - 1) : \A i \in 1..Len(edgeList) :
                             ~(edgeList[i].source = order[m] /\ edgeList[i].target = v)
    IN  <<parent, CHOOSE i \in 1..Len(edgeList) :
                      /\ edgeList[i].source = order[parent] /\ edgeList[i].target = v
                      /\ \A j \in 1..(i - 1) :
                             ~(edgeList[j].source = order[parent] /\ edgeList[j].target = v)>>

Earlier(a, b) == a[1] < b[1] \/ (a[1] = b[1] /\ a[2] < b[2])

\* order lists the vertices reachable from its first vertex, each once, in
\* breadth-first first-discovery order, neighbours in edge-list order
IsDiscoveryOrder(order) ==
    /\ \A i, j \in 1..Len(order) : i # j => order[i] # order[j]
    /\ {order[i] : i \in 1..Len(order)} = ReachableFrom({order[1]})
    /\ \A i, j \in 2..Len(order) :
           i < j => Earlier(DiscoveredAt(order, order[i]), DiscoveredAt(order, order[j]))

\* C12: when allowedDependency edges are present, the LayerTable that
\* buildContext builds is the null sentinel at index 0 followed by the layer
\* names in breadth-first first-discovery order from the root (neighbours in
\* edge-list order): the root's layer is at index 1, the real layers at 1..N.
C12_BfsOrder ==
    (pc = "built" /\ Len(edgeList) > 0) =>
        /\ layers[1] = null
        /\ Len(layers) >= 2
        /\ \A i \in 2..Len(layers) : layers[i] # null
        /\ TableNodes[1] = FirstCandidate
        /\ IsDiscoveryOrder(TableNodes)

\* a root with two children, the first of which has a child of its own
C12_Witness ==
    /\ pc = "built"
    /\ edgeList = <<[source |-> "ui", target |-> "svc"],
                    [source |-> "svc", target |-> "dom"],
                    [source |-> "ui", target |-> "db"]>>
    /\ layers = <<null, Presentation, Service, DataSource, Domain>>

\* the keys of the buckets that the bucketing makes for the table
BucketKeys(ls) == EmptyBuckets(generateLayerOrder(slice(ls, 1)), 1, <<>>)

\* C13: whichever way buildContext obtains the layers, the LayerTable has the
\* sentinel at index 0 and the real layers from index 1; without edges it is
\* [null, Presentation, Service, Domain, Data Source], so that the bucketing,
\* which drops index 0, has a single-layer bucket for each default layer.
C13_SentinelAlways ==
    pc = "built" =>
        /\ layers[1] = null
        /\ \A i \in 2..Len(layers) : layers[i] # null
        /\ Len(edgeList) = 0 =>
               /\ layers = <<null, Presentation, Service, Domain, DataSource>>
               /\ \A l \in {Presentation, Service, Domain, DataSource} : HasKey(BucketKeys(layers), l)

\* C14: on a non-empty edge list without a source that is never a target the
\* derivation fails with an error: no LayerTable is produced, nothing is
\* retried and no default table is put in its place.
C14_NoRootFails ==
    /\ [](RootCandidates = {} /\ Len(edgeList) > 0 =>
              /\ pc \in {"context", "failed"}
              /\ layers = undefined
              /\ pc = "failed" => thrown # null)
    /\ [][pc # "failed"]_vars

\* a cycle through three vertices has failed
C14_Witness ==
    /\ pc = "failed"
    /\ edgeList = <<[source |-> "ui", target |-> "svc"],
                    [source |-> "svc", target |-> "dom"],
                    [source |-> "dom", target |-> "ui"]>>
    /\ thrown # null
    /\ layers = undefined

\* C15: a derived table contains every vertex of the edge list, every source
\* and every target, exactly once.
C15_AllVertices ==
    (pc = "built" /\ Len(edgeList) > 0) =>
        \A v \in Vertices :
            Cardinality({i \in 2..Len(layers) : layers[i] = simpleName(v)}) = 1

(***************************************************************************)
(* SpecCtxFair: buildContext on every list of at most MaxFairEdges edges   *)
(* between three layer nodes; it is synchronous code, so a step that can   *)
(* be taken is taken                                                       *)
(***************************************************************************)
MaxFairEdges == 3

FairNodeIds == {"ui", "svc", "dom"}

InitCtxFair ==
    /\ pc = "context"
    /\ layers = undefined
    /\ \E n \in 0..MaxFairEdges :
           edgeList \in [1..n -> {e \in DependencyEdges : e.source \in FairNodeIds /\ e.target \in FairNodeIds}]
    /\ root = null /\ queue = <<>> /\ visited = <<>> /\ result = <<>>
    /\ thrown = null /\ hues = hueMap
    /\ IdleDom /\ IdleOrder /\ IdlePipe /\ IdleGraph

SpecCtxFair == InitCtxFair /\ [][NextCtx]_vars /\ WF_vars(NextCtx)

\* the vertices enqueued so far, in the order of their enqueueing: those
\* dequeued and those still in the queue
Enqueued == result \o queue

\* C30: bfsSort terminates on every edge list that has a root, cycles below
\* the root, self-loops and parallel edges included: no vertex is enqueued
\* twice, so there are at most as many dequeues as vertices, and the
\* traversal ends with the table built.
C30_BfsTerminates ==
    /\ [](/\ \A i, j \in 1..Len(Enqueued) : i # j => Enqueued[i] # Enqueued[j]
          /\ Len(result) <= Cardinality(Vertices))
    /\ (pc = "context" /\ RootCandidates # {}) ~> (pc = "built")

\* a root above a cycle of two vertices
C30_Witness ==
    /\ pc = "built"
    /\ edgeList = <<[source |-> "ui", target |-> "svc"],
                    [source |-> "svc", target |-> "dom"],
                    [source |-> "dom", target |-> "svc"]>>
    /\ result = <<"ui", "svc", "dom">>

(***************************************************************************)
(* graph.js: the edge index of the graph and the cached sources and        *)
(* targets of its nodes                                                    *)
(***************************************************************************)
\* attachEdge lines 209-214: the edge goes to the array of its label in
\* graph._meta._edges, which is made if the label has none
attachEdge(map, edge) ==
    Push(IF HasKey(map, edge.label) THEN map ELSE SetEmpty(map, edge.label), edge.label, edge)

\* createGraph lines 236-238: graphData.elements.edges.forEach(attachEdge)
RECURSIVE AttachFrom(_, _, _)
AttachFrom(edges, i, map) ==
    IF i > Len(edges) THEN map ELSE AttachFrom(edges, i + 1, attachEdge(map, edges[i]))

\* graph.edges(label): this._meta._edges[label] ?? []
edges(map, label) == ItemsOf(map, label)

\* node.targets(label) computed anew: edges(label, e => e.source().id() === id).map(e => e.target())
TargetNodes(map, label, id) ==
    [i \in 1..Len(SelectSeq(edges(map, label), LAMBDA e : e.source = id)) |->
        SelectSeq(edges(map, label), LAMBDA e : e.source = id)[i].target]

\* node.sources(label) computed anew
SourceNodes(map, label, id) ==
    [i \in 1..Len(SelectSeq(edges(map, label), LAMBDA e : e.target = id)) |->
        SelectSeq(edges(map, label), LAMBDA e : e.target = id)[i].source]

\* addEdge lines 163-170: the cache objects of the two nodes are replaced by {}
Invalidate(cache, s, t) == [cache EXCEPT ![s] = <<>>, ![t] = <<>>]

\* the cache object with the list stored under the label, if it has none
Cached(object, label, nodes) ==
    IF HasKey(object, label) THEN object ELSE Append(object, [key |-> label, items |-> nodes])

\* graph.addEdge(sourceNode, targetNode, edgeLabel)
AddEdge ==
    /\ pc = "graph"
    /\ calls < MaxCalls
    /\ calls' = calls + 1
    /\ \E s \in GraphNodes, t \in GraphNodes, l \in EdgeLabels :
           \E edge \in {[id |-> Len(elementsEdges) + 1, label |-> l, source |-> s, target |-> t]} :
               /\ elementsEdges' = Append(elementsEdges, edge)
               /\ metaEdges' = Push(attachEdge(metaEdges, edge), l, edge)
               /\ metaSources' = Invalidate(metaSources, s, t)
               /\ metaTargets' = Invalidate(metaTargets, s, t)
               /\ answer' = [call |-> "addEdge", node |-> s, label |-> l, value |-> <<edge>>]
    /\ UNCHANGED <<pc, layers, outsideGraph>>

\* node.targets(edgeLabel)
QueryTargets ==
    /\ pc = "graph"
    /\ calls < MaxCalls
    /\ calls' = calls + 1
    /\ \E n \in GraphNodes, l \in EdgeLabels :
           /\ metaTargets' = [metaTargets EXCEPT ![n] = Cached(@, l, TargetNodes(metaEdges, l, n))]
           /\ answer' = [call |-> "targets", node |-> n, label |-> l,
                         value |-> ItemsOf(metaTargets'[n], l)]
    /\ UNCHANGED <<pc, layers, elementsEdges, metaEdges, metaSources, outsideGraph>>

\* node.sources(edgeLabel)
QuerySources ==
    /\ pc = "graph"
    /\ calls < MaxCalls
    /\ calls' = calls + 1
    /\ \E n \in GraphNodes, l \in EdgeLabels :
           /\ metaSources' = [metaSources EXCEPT ![n] = Cached(@, l, SourceNodes(metaEdges, l, n))]
           /\ answer' = [call |-> "sources", node |-> n, label |-> l,
                         value |-> ItemsOf(metaSources'[n], l)]
    /\ UNCHANGED <<pc, layers, elementsEdges, metaEdges, metaTargets, outsideGraph>>

NextGraph == AddEdge \/ QueryTargets \/ QuerySources

\* createGraph on a graph of the nodes GraphNodes and at most MaxLoadedEdges
\* edges, numbered in the order of elements.edges; at most MaxCalls calls of
\* addEdge, targets and sources follow
InitGraph ==
    /\ pc = "graph"
    /\ layers = undefined
    /\ \E n \in 0..MaxLoadedEdges :
           \E loaded \in [1..n -> [label : EdgeLabels, source : GraphNodes, target : GraphNodes]] :
               elementsEdges = [i \in 1..n |-> [id |-> i, label |-> loaded[i].label,
                                                source |-> loaded[i].source,
                                                target |-> loaded[i].target]]
    /\ metaEdges = AttachFrom(elementsEdges, 1, <<>>)
    /\ metaSources = [n \in GraphNodes |-> <<>>]
    /\ metaTargets = [n \in GraphNodes |-> <<>>]
    /\ answer = [call |-> "createGraph", node |-> null, label |-> null, value |-> <<>>]
    /\ calls = 0
    /\ IdleDom /\ IdleOrder /\ IdlePipe /\ IdleCtx

SpecGraph == InitGraph /\ [][NextGraph]_vars

\* the edges with the label that are in the graph (graph.elements.edges)
EdgesInGraph(label) == SelectSeq(elementsEdges, LAMBDA e : e.label = label)

\* the target nodes of the edges with the label whose source is the node
TargetsInGraph(label, id) ==
    [i \in 1..Len(SelectSeq(EdgesInGraph(label), LAMBDA e : e.source = id)) |->
        SelectSeq(EdgesInGraph(label), LAMBDA e : e.source = id)[i].target]

SourcesInGraph(label, id) ==
    [i \in 1..Len(SelectSeq(EdgesInGraph(label), LAMBDA e : e.target = id)) |->
        SelectSeq(EdgesInGraph(label), LAMBDA e : e.target = id)[i].source]

\* every cached list is what the query would compute anew from graph.edges(label)
CacheFresh ==
    \A n \in GraphNodes, l \in EdgeLabels :
        /\ HasKey(metaTargets[n], l) => ItemsOf(metaTargets[n], l) = TargetNodes(metaEdges, l, n)
        /\ HasKey(metaSources[n], l) => ItemsOf(metaSources[n], l) = SourceNodes(metaEdges, l, n)

\* C18: after any interleaving of addEdge with targets(label) and
\* sources(label) queries, what node.targets(label) returns is the list of
\* the target nodes of the edges with that label now in the graph whose
\* source is the node, and sources(label) likewise: no list cached before
\* an addEdge is returned after it.
C18_TargetsCurrent ==
    /\ answer.call = "targets" => answer.value = TargetsInGraph(answer.label, answer.node)
    /\ answer.call = "sources" => answer.value = SourcesInGraph(answer.label, answer.node)

\* C28: after createGraph and any sequence of addEdge calls, graph.edges(L)
\* holds every edge of the graph whose label is L exactly once, in the order
\* of their insertion, and nothing else; so an addEdge lengthens edges(L) by
\* exactly one.
C28_EdgeIndex ==
    \A l \in EdgeLabels : edges(metaEdges, l) = EdgesInGraph(l)

(***************************************************************************)
(* graph.js invert, compose and lift; tooltip.js buildContext lines        *)
(* 360-365: the derived "calls" edges                                      *)
(***************************************************************************)
\* the ids of the class nodes and of the method nodes of the loaded JSON
ClassIds  == {"a", "a-a", "b"}
MethodIds == {"m", "n"}

\* how many edges the loaded JSON has
MaxJsonEdges == 4

\* an edge of the JSON without properties.weight; the field weight is what
\* lines 262 and 291 read for it (properties?.weight, 1 when it is missing)
JsonEdges ==
    {[source |-> c, target |-> m, label |-> "hasScript", weight |-> 1] : c \in ClassIds, m \in MethodIds}
    \cup {[source |-> m, target |-> n, label |-> "invokes", weight |-> 1] : m \in MethodIds, n \in MethodIds}

\* lines 243-251
invert(list) ==
    [i \in 1..Len(list) |->
        [source |-> list[i].target, target |-> list[i].source,
         label |-> "inv_" \o list[i].label, weight |-> list[i].weight]]

\* the entry of one edge of l2 in the mapping (line 266)
Connection(e) == [target |-> e.target, label |-> e.label, weight |-> e.weight]

RECURSIVE ConnectionsFrom(_, _, _)
ConnectionsFrom(l2, source, i) ==
    IF i > Len(l2) THEN <<>>
    ELSE IF l2[i].source = source THEN <<Connection(l2[i])>> \o ConnectionsFrom(l2, source, i + 1)
    ELSE ConnectionsFrom(l2, source, i + 1)

\* lines 258-270: the Map from a source of l2 to its connections, in order
buildMapping(l2) ==
    [s \in {l2[i].source : i \in 1..Len(l2)} |-> ConnectionsFrom(l2, s, 1)]

\* line 292: the key of the aggregated pair
PairKeyOf(s1, target) == s1 \o "-" \o target

\* position of the key in the Map aggregatedEdges, 0 if it is not there
RECURSIVE KeyIndex(_, _, _)
KeyIndex(agg, key, i) ==
    IF i > Len(agg) THEN 0
    ELSE IF agg[i].key = key THEN i
    ELSE KeyIndex(agg, key, i + 1)

\* line 300: newlabel || `${label}-${secondLabel}`
ComposedLabel(newlabel, label, secondLabel) ==
    IF newlabel = undefined \/ newlabel = "" THEN label \o "-" \o secondLabel ELSE newlabel

\* lines 291-307: one connection of one edge of l1
AggregateEdge(agg, e, conn, newlabel) ==
    IF KeyIndex(agg, PairKeyOf(e.source, conn.target), 1) = 0
        THEN Append(agg, [key |-> PairKeyOf(e.source, conn.target),
                          source |-> e.source, target |-> conn.target,
                          label |-> ComposedLabel(newlabel, e.label, conn.label),
                          weight |-> conn.weight * e.weight])
    ELSE [agg EXCEPT ![KeyIndex(agg, PairKeyOf(e.source, conn.target), 1)].weight =
              @ + conn.weight * e.weight]

\* lines 290-308: the connections of one edge of l1
RECURSIVE Connect(_, _, _, _, _)
Connect(agg, e, connections, j, newlabel) ==
    IF j > Len(connections) THEN agg
    ELSE Connect(AggregateEdge(agg, e, connections[j], newlabel), e, connections, j + 1, newlabel)

\* lines 285-309: the loop over l1
RECURSIVE ComposeFrom(_, _, _, _, _)
ComposeFrom(agg, l1, mapping, i, newlabel) ==
    IF i > Len(l1) THEN agg
    ELSE IF l1[i].target \notin DOMAIN mapping THEN ComposeFrom(agg, l1, mapping, i + 1, newlabel)
    ELSE ComposeFrom(Connect(agg, l1[i], mapping[l1[i].target], 1, newlabel), l1, mapping, i + 1, newlabel)

\* line 311: Array.from(aggregatedEdges.values())
ValuesOf(agg) ==
    [i \in 1..Len(agg) |->
        [source |-> agg[i].source, target |-> agg[i].target, label |-> agg[i].label,
         weight |-> agg[i].weight]]

\* lines 282-312
composeEdges(l1, mapping, newlabel) == ValuesOf(ComposeFrom(<<>>, l1, mapping, 1, newlabel))

\* lines 324-332, on arrays
compose(l1, l2, newlabel) == composeEdges(l1, buildMapping(l2), newlabel)

\* lines 335-337
lift(rel1, rel2, newlabel) == compose(compose(rel1, rel2, undefined), invert(rel1), newlabel)

\* tooltip.js 361-363
WithLabel(list, label) == SelectSeq(list, LAMBDA e : e.label = label)

DerivedCalls(list) ==
    SelectSeq(lift(WithLabel(list, "hasScript"), WithLabel(list, "invokes"), "calls"),
              LAMBDA e : e.source # e.target)

\* tooltip.js 360-365: the derived edges are appended to the edges of the JSON
MergeCalls ==
    /\ pc = "merge"
    /\ elementsEdges' = elementsEdges \o DerivedCalls(elementsEdges)
    /\ pc' = "context"
    /\ UNCHANGED <<layers, metaEdges, metaSources, metaTargets, answer, calls, outsideGraph>>

NextLift == MergeCalls

(***************************************************************************)
(* SpecLift: the merge on every list of at most MaxJsonEdges hasScript and *)
(* invokes edges                                                           *)
(***************************************************************************)
InitLift ==
    /\ pc = "merge"
    /\ layers = undefined
    /\ \E n \in 0..MaxJsonEdges : elementsEdges \in [1..n -> JsonEdges]
    /\ metaEdges = <<>>
    /\ metaSources = [n \in GraphNodes |-> <<>>] /\ metaTargets = [n \in GraphNodes |-> <<>>]
    /\ answer = null /\ calls = 0
    /\ IdleDom /\ IdleOrder /\ IdlePipe /\ IdleCtx

SpecLift == InitLift /\ [][NextLift]_vars

\* the edges of the JSON and the edges the merge derived
Loaded     == SelectSeq(elementsEdges, LAMBDA e : e.label # "calls")
CallsEdges == SelectSeq(elementsEdges, LAMBDA e : e.label = "calls")

\* the method is a method of the class
HasScript(c, m) == \E i \in 1..Len(Loaded) : Loaded[i] = [source |-> c, target |-> m, label |-> "hasScript", weight |-> 1]

\* the invokes edges from a method of A to a method of B
InvokesBetween(A, B) ==
    {i \in 1..Len(Loaded) :
        /\ Loaded[i].label = "invokes"
        /\ HasScript(A, Loaded[i].source)
        /\ HasScript(B, Loaded[i].target)}

\* the calls edges from A to B
CallsBetween(A, B) ==
    {i \in 1..Len(CallsEdges) : CallsEdges[i].source = A /\ CallsEdges[i].target = B}

\* C29: after the merge of buildContext, for classes A and B with A # B
\* there is exactly one calls edge from A to B if some method of A invokes
\* some method of B and none otherwise, its weight is the number of invokes
\* edges from a method of A to a method of B, and no calls edge has its
\* source equal to its target.
C29_DerivedCalls ==
    pc = "context" =>
        /\ \A A \in ClassIds, B \in ClassIds :
               A # B =>
                   /\ Cardinality(CallsBetween(A, B)) = (IF InvokesBetween(A, B) = {} THEN 0 ELSE 1)
                   /\ \A i \in CallsBetween(A, B) :
                          CallsEdges[i].weight = Cardinality(InvokesBetween(A, B))
        /\ \A i \in 1..Len(CallsEdges) : CallsEdges[i].source # CallsEdges[i].target

(***************************************************************************)
(* SpecBuckets: the pipeline on small graphs under every LayerTable of up  *)
(* to MaxLayers real layers                                                *)
(***************************************************************************)
MaxLayers == 3

\* the arrays of n pairwise distinct layer names
NameSeqs(n) == {t \in [1..n -> VecLayers] : \A i, j \in 1..n : i # j => t[i] # t[j]}

\* context.layers: the sentinel and then the real layers, and the table of
\* tooltip.js 377
BucketTables ==
    {<<null>> \o t : t \in UNION {NameSeqs(n) : n \in 1..MaxLayers}} \cup {DefaultLayers}

\* the graphs of at most three nodes
SmallGraphs == UNION {PackageSeqs(t) : t \in 0..3}

InitBuckets ==
    /\ pc = "aggregate"
    /\ layers \in BucketTables
    /\ graph \in SmallGraphs
    /\ bubbleTeaDataArray = <<>> /\ layersMap = <<>> /\ drawn = 0
    /\ pass = 1 /\ returned = <<>> /\ firstPass = <<>>
    /\ IdleDom /\ IdleOrder /\ IdleCtx /\ IdleGraph

SpecBuckets == InitBuckets /\ [][NextPipe]_vars

\* the own keys of the object layersMap, in the order of their creation
KeysOf(map) == [k \in 1..Len(map) |-> map[k].key]

PairKey(a, b) == a \o ", " \o b

\* L1, L1+L2, L2, ..., LN, cross-cutting
ExpectedKeys(real) ==
    [k \in 1..(2 * Len(real)) |->
        IF k = 2 * Len(real) THEN ""
        ELSE IF k % 2 = 1 THEN real[(k + 1) \div 2]
        ELSE PairKey(real[k \div 2], real[k \div 2 + 1])]

KeysAsClaimed(keys, real) ==
    /\ keys = ExpectedKeys(real)
    /\ Len(keys) = 2 * Len(real)
    /\ \A i, j \in 1..Len(keys) : i # j => keys[i] # keys[j]
    /\ \A i \in 1..Len(real) : \E k \in 1..Len(keys) : keys[k] = real[i]
    /\ \A i, j \in 1..Len(real) :
           i # j => ((\E k \in 1..Len(keys) : keys[k] = PairKey(real[i], real[j])) <=> j = i + 1)

\* C24: for a LayerTable with N >= 1 real layers (the entries after index 0)
\* the bucket keys are the N single layers, the N-1 pairs of consecutive
\* layers with the earlier layer first, and the empty key of cross-cutting:
\* 2N distinct keys, created in the order L1, L1+L2, L2, ..., LN, "".  No
\* pair of layers that are not consecutive, or in reversed order, is a key.
C24_BucketKeys ==
    (pc \in {"draw", "done"} /\ Len(graph) > 0) =>
        KeysAsClaimed(KeysOf(layersMap), SubSeq(layers, 2, Len(layers)))

\* three real layers in an order of their own
C24_Witness ==
    /\ pc = "draw"
    /\ layers = <<null, Service, Utility, Presentation>>
    /\ KeysOf(layersMap) = <<Service, "Service Layer, Utility Layer", Utility,
                             "Utility Layer, Presentation Layer", Presentation, "">>

(***************************************************************************)
(* SpecSingle: the pipeline on a graph of one package with one class       *)
(***************************************************************************)
MaxRun == 9

\* n method nodes of layer l
Run(l, n) == [k \in 1..n |-> [layer |-> l]]

SingleClassGraphs ==
    {<<[layer |-> undefined,
        classes |-> <<[package |-> undefined, layer |-> undefined,
                       methods |-> Run(Presentation, a) \o Run(Service, b) \o Run(Domain, c)]>>]>> :
        a \in 0..MaxRun, b \in 0..MaxRun, c \in 0..MaxRun}

InitSingle == InitPipeOn({<<>>} \cup SingleClassGraphs)

SpecSingle == InitSingle /\ [][NextPipe]_vars

\* C9: the dominant set of a package of exactly one class is the dominant set
\* that dominatingLayers returns for the class's own raw vector.
C9_SingleClass ==
    pc \in {"aggregate", "categorize"} =>
        \A p \in 1..Len(bubbleTeaDataArray) :
            Len(graph[p].classes) = 1 =>
                bubbleTeaDataArray[p].dominant
                    = dominatingLayers(layers, VecOf(bubbleTeaDataArray[p].bubbleData, 1))

=============================================================================
